---- MODULE Spec2Model ----
(***************************************************************************)
(* A model of the virtual workspace of the IDE: the WorkspaceService       *)
(* (src/src/services/codeExecutor.ts, lines 268-599), its localStorage     *)
(* persistence, and the editor handlers of the CodeCompiler component that *)
(* write into it.                                                          *)
(*                                                                         *)
(* Strings the code takes apart (names, paths) are sequences of tokens:    *)
(* "/" and "." are tokens of their own, every other token is a run of      *)
(* characters holding neither.  '/src/main.cpp' is                         *)
(* <<"/", "src", "/", "main", ".", "cpp">>.  Strings the code only stores  *)
(* and compares (ids, content, language tags) are atoms.                   *)
(*                                                                         *)
(* The in-memory tree is a heap of objects: workspace.objects maps the     *)
(* address of an object to its fields, a folder's children is the sequence *)
(* of the addresses of its children.  An object's address is the id        *)
(* generateId gave it.  A folder is an object with a children field, as in *)
(* the code ('children' in item).                                          *)
(***************************************************************************)
EXTENDS Integers, Sequences, FiniteSets, TLC

VARIABLES workspace, localStorage, nextId, openTabs, activeTabId, mounted,
          last, opCount, gateway, session, templateService

vars ==
  <<workspace, localStorage, nextId, openTabs, activeTabId, mounted, last,
    opCount, gateway, session, templateService>>

\* ------------------------------------------------------------------ bounds
\* The number of operations of one run.
MaxOps == 2

\* ----------------------------------------------------------------- strings
Slash == "/"
Dot == "."

\* The names given to createFile, to createFolder and to rename.
FileNames == { <<"main", ".", "py">>, <<"py">> }
FolderNames == { <<"src">> }
NewNames == { <<"lib">>, <<"main", ".", "py">> }

\* The content given to writeFile and typed into the editor.
Contents == { "x" }

Languages == { "c", "cpp", "java", "javascript", "python" }

\* No language argument (language === undefined).
NoLanguage == "undefined"

\* null, where the code holds an object or an id.
Null == 0

\* String.prototype.lastIndexOf, 1-based; 0 when the token is absent (JS -1).
lastIndexOf(s, t) ==
  LET hits == { i \in 1..Len(s) : s[i] = t }
  IN IF hits = {} THEN 0 ELSE CHOOSE i \in hits : \A j \in hits : j <= i

\* String.prototype.toLowerCase on the tokens of the model.
toLowerCase(s) ==
  [ i \in 1..Len(s) |->
      CASE s[i] = "PY" -> "py"
        [] s[i] = "README" -> "readme"
        [] OTHER -> s[i] ]

\* filename.split('.').pop(): what follows the last '.', the whole name when
\* it has none.
splitPop(filename) ==
  SubSeq(filename, lastIndexOf(filename, Dot) + 1, Len(filename))

DEFAULT_CODE ==
  [ l \in Languages |->
      CASE l = "c" -> "DEFAULT_CODE.c"
        [] l = "cpp" -> "DEFAULT_CODE.cpp"
        [] l = "java" -> "DEFAULT_CODE.java"
        [] l = "javascript" -> "DEFAULT_CODE.javascript"
        [] l = "python" -> "DEFAULT_CODE.python" ]

getLanguageFromExtension(filename) ==
  LET ext == toLowerCase(splitPop(filename))
  IN CASE ext = <<"c">> -> "c"
       [] ext \in { <<"cpp">>, <<"cc">>, <<"cxx">> } -> "cpp"
       [] ext = <<"java">> -> "java"
       [] ext \in { <<"js">>, <<"mjs">> } -> "javascript"
       [] ext = <<"py">> -> "python"
       [] OTHER -> "cpp"

\* -------------------------------------------------------------------- tree
isFolder(o) == "children" \in DOMAIN o

\* generateId hands out 1, 2, 3, ...: the objects of the default workspace
\* are the objects 1 to 5, in the order the code builds them.
createDefaultWorkspace ==
  [ root |-> 5,
    objects |->
      << [ id |-> 1, name |-> <<"src">>, path |-> <<Slash, "src">>,
           children |-> <<2, 3>> ],
         [ id |-> 2, name |-> <<"main", Dot, "cpp">>,
           path |-> <<Slash, "src", Slash, "main", Dot, "cpp">>,
           language |-> "cpp", content |-> DEFAULT_CODE["cpp"],
           isSaved |-> TRUE ],
         [ id |-> 3, name |-> <<"main", Dot, "py">>,
           path |-> <<Slash, "src", Slash, "main", Dot, "py">>,
           language |-> "python", content |-> DEFAULT_CODE["python"],
           isSaved |-> TRUE ],
         [ id |-> 4, name |-> <<"README", Dot, "md">>,
           path |-> <<Slash, "README", Dot, "md">>,
           language |-> "cpp", content |-> "README_TEXT",
           isSaved |-> TRUE ],
         [ id |-> 5, name |-> <<"workspace">>, path |-> <<Slash>>,
           children |-> <<1, 4>> ] >> ]

\* The ids createDefaultWorkspace has drawn from generateId.
DefaultIds == 5

\* ------------------------------------------------------------------ lookup
RECURSIVE findItemByPath(_, _, _), findItemByPathLoop(_, _, _, _)

\* findItemByPath(path, root) over the objects O: the first object in
\* pre-order whose path is `path`, Null when there is none.
findItemByPath(O, path, root) ==
  IF O[root].path = path THEN root
  ELSE findItemByPathLoop(O, path, O[root].children, 1)

\* The for loop of findItemByPath over root.children, from child i on.
findItemByPathLoop(O, path, children, i) ==
  IF i > Len(children) THEN Null
  ELSE LET child == children[i]
           found == IF isFolder(O[child]) THEN findItemByPath(O, path, child)
                    ELSE Null
       IN IF O[child].path = path THEN child
          ELSE IF found # Null THEN found
          ELSE findItemByPathLoop(O, path, children, i + 1)

\* path.substring(0, path.lastIndexOf('/')) || '/'
parentPathOf(path) ==
  LET p == SubSeq(path, 1, lastIndexOf(path, Slash) - 1)
  IN IF p = <<>> THEN <<Slash>> ELSE p

findParentFolder(ws, path) ==
  LET parent == findItemByPath(ws.objects, parentPathOf(path), ws.root)
  IN IF parent # Null /\ isFolder(ws.objects[parent]) THEN parent ELSE Null

readFile(ws, path) ==
  LET item == findItemByPath(ws.objects, path, ws.root)
  IN IF item # Null /\ ~isFolder(ws.objects[item]) THEN item ELSE Null

\* parent.children.some(child => child.name === name)
nameTaken(ws, parent, name) ==
  \E i \in 1..Len(ws.objects[parent].children) :
     ws.objects[ws.objects[parent].children[i]].name = name

\* parentPath === '/' ? `/${name}` : `${parentPath}/${name}`
childPath(parentPath, name) ==
  IF parentPath = <<Slash>> THEN <<Slash>> \o name
  ELSE parentPath \o <<Slash>> \o name

RECURSIVE getAllFiles(_, _), getAllFilesLoop(_, _, _)

\* getAllFiles(folder): the files below folder, in pre-order.
getAllFiles(O, folder) == getAllFilesLoop(O, O[folder].children, 1)

getAllFilesLoop(O, children, i) ==
  IF i > Len(children) THEN <<>>
  ELSE (IF isFolder(O[children[i]]) THEN getAllFiles(O, children[i])
        ELSE <<children[i]>>) \o getAllFilesLoop(O, children, i + 1)

RECURSIVE findById(_, _, _), findByIdLoop(_, _, _, _)

findById(O, id, root) ==
  IF O[root].id = id THEN root ELSE findByIdLoop(O, id, O[root].children, 1)

findByIdLoop(O, id, children, i) ==
  IF i > Len(children) THEN Null
  ELSE LET child == children[i]
           found == IF isFolder(O[child]) THEN findById(O, id, child) ELSE Null
       IN IF O[child].id = id THEN child
          ELSE IF found # Null THEN found
          ELSE findByIdLoop(O, id, children, i + 1)

RECURSIVE checkUnsaved(_, _)

\* checkUnsaved(item) of hasUnsavedChanges.
checkUnsaved(O, item) ==
  IF isFolder(O[item])
  THEN \E i \in 1..Len(O[item].children) : checkUnsaved(O, O[item].children[i])
  ELSE ~O[item].isSaved

\* hasUnsavedChanges looking at the files right under the root only.
hasUnsavedChanges_topLevel(ws) ==
  \E i \in 1..Len(ws.objects[ws.root].children) :
     LET child == ws.objects[ws.objects[ws.root].children[i]]
     IN ~isFolder(child) /\ ~child.isSaved

hasUnsavedChanges(ws) ==
  \E i \in 1..Len(ws.objects[ws.root].children) :
     checkUnsaved(ws.objects, ws.objects[ws.root].children[i])

RECURSIVE subtree(_, _)

\* The objects a folder owns: itself and everything below it.
subtree(O, item) ==
  IF isFolder(O[item])
  THEN {item} \cup UNION { subtree(O, O[item].children[i]) :
                            i \in 1..Len(O[item].children) }
  ELSE {item}

\* A workspace the methods can walk: this.workspace.root is an object.  Of a
\* workspace that is null or has no root every method throws a TypeError, at
\* this.workspace.root or at root.path.
usable(ws) == ws.root # Null

\* The objects the garbage collector keeps: those reachable from the root.
collect(ws) ==
  IF usable(ws)
  THEN [ ws EXCEPT !.objects =
           [ a \in subtree(ws.objects, ws.root) |-> ws.objects[a] ] ]
  ELSE ws

\* ------------------------------------------------------------- persistence
\* localStorage is a record with one field per key the program uses, the
\* field of the key 'vscode-workspace' being vscode_workspace.  A field holds
\* the items stored under the key: none (getItem returns null) or one.
NoItem == <<>>

\* Texts under the workspace key that no saveWorkspace has written: one that
\* is not JSON (JSON.parse throws a SyntaxError), the text 'null' and the
\* text '{}' (JSON.parse returns null, and an object without a root).
NotJson == [ syntaxError |-> TRUE ]
JsonNull == [ json |-> "null" ]
JsonNoRoot == [ json |-> "{}" ]

RECURSIVE stringifyNode(_, _), stringifyChildren(_, _, _)

\* JSON.stringify of one node: the nested value the text denotes, a folder's
\* children held by value.
stringifyNode(O, item) ==
  IF isFolder(O[item])
  THEN [ id |-> O[item].id, name |-> O[item].name, path |-> O[item].path,
         children |-> stringifyChildren(O, O[item].children, 1) ]
  ELSE [ id |-> O[item].id, name |-> O[item].name, path |-> O[item].path,
         language |-> O[item].language, content |-> O[item].content,
         isSaved |-> O[item].isSaved ]

\* The array of the children from child i on.
stringifyChildren(O, children, i) ==
  IF i > Len(children) THEN <<>>
  ELSE <<stringifyNode(O, children[i])>>
       \o stringifyChildren(O, children, i + 1)

\* JSON.stringify(this.workspace)
stringify(ws) == [ root |-> stringifyNode(ws.objects, ws.root) ]

RECURSIVE parseNode(_)

\* JSON.parse of one node: the objects it allocates, as a set of
\* <<address, fields>>, the address of an object being its id.
parseNode(json) ==
  IF "children" \in DOMAIN json
  THEN { << json.id,
            [ id |-> json.id, name |-> json.name, path |-> json.path,
              children |-> [ i \in 1..Len(json.children) |->
                               json.children[i].id ] ] >> }
       \cup UNION { parseNode(json.children[i]) : i \in 1..Len(json.children) }
  ELSE { << json.id, json >> }

\* JSON.parse(saved), for a text that is JSON: the workspace the text
\* denotes, or a value without a root.
parse(text) ==
  LET cells == parseNode(text.root)
  IN IF "root" \in DOMAIN text
     THEN [ root |-> text.root.id,
            objects |-> [ a \in { c[1] : c \in cells } |->
                            (CHOOSE c \in cells : c[1] = a)[2] ] ]
     ELSE [ root |-> Null, objects |-> <<>> ]

\* loadWorkspace: the parsed text when there is one and JSON.parse does not
\* throw, the default workspace otherwise.
loadWorkspace(storage) ==
  IF storage.vscode_workspace # NoItem
     /\ "syntaxError" \notin DOMAIN storage.vscode_workspace[1]
  THEN parse(storage.vscode_workspace[1])
  ELSE createDefaultWorkspace

\* saveWorkspace: setItem either stores the text or throws (the quota is
\* exceeded), and then the catch block leaves the stored value as it was.
saveWorkspace(ws, storage, setItemThrows) ==
  IF setItemThrows THEN storage
  ELSE [ storage EXCEPT !.vscode_workspace = <<stringify(ws)>> ]

\* A call that writes one key outside any try block: the storage after it, and
\* whether setItem threw, which the call passes on to its caller.
stored(storage, raised) == [ storage |-> storage, raised |-> raised ]

\* getOpenTabs: the stored list of { fileId, filePath }, [] when none.
getOpenTabs(storage) ==
  IF storage.vscode_open_tabs # NoItem THEN storage.vscode_open_tabs[1]
  ELSE <<>>

setOpenTabs(storage, tabs, setItemThrows) ==
  IF setItemThrows THEN stored(storage, TRUE)
  ELSE stored([ storage EXCEPT !.vscode_open_tabs = <<tabs>> ], FALSE)

\* getActiveTabId: the stored id, Null when none.
getActiveTabId(storage) ==
  IF storage.vscode_active_tab # NoItem THEN storage.vscode_active_tab[1]
  ELSE Null

\* setActiveTabId: setItem for an id, removeItem (which never throws) for
\* null.
setActiveTabId(storage, tabId, setItemThrows) ==
  IF tabId = Null
  THEN stored([ storage EXCEPT !.vscode_active_tab = NoItem ], FALSE)
  ELSE IF setItemThrows THEN stored(storage, TRUE)
  ELSE stored([ storage EXCEPT !.vscode_active_tab = <<tabId>> ], FALSE)

\* The layouts a resize ends with, as (explorerWidth, editorHeight).
Layouts == { <<25, 70>>, <<30, 60>> }

\* getLayout: the stored layout, 25 by 70 when none.
getLayout(storage) ==
  IF storage.vscode_layout # NoItem THEN storage.vscode_layout[1]
  ELSE <<25, 70>>

setLayout(storage, layout, setItemThrows) ==
  IF setItemThrows THEN stored(storage, TRUE)
  ELSE stored([ storage EXCEPT !.vscode_layout = <<layout>> ], FALSE)

\* Every page load draws new ids from generateId: the workspace ws with each
\* id, and each address, moved up by base.
withFreshIds(ws, base) ==
  [ root |-> ws.root + base,
    objects |->
      [ a \in { b + base : b \in DOMAIN ws.objects } |->
          IF isFolder(ws.objects[a - base])
          THEN [ ws.objects[a - base] EXCEPT
                   !.id = @ + base,
                   !.children = [ i \in 1..Len(@) |-> @[i] + base ] ]
          ELSE [ ws.objects[a - base] EXCEPT !.id = @ + base ] ] ]

\* Whether loadWorkspace finds a text it can parse.
hasSavedWorkspace(storage) ==
  /\ storage.vscode_workspace # NoItem
  /\ "syntaxError" \notin DOMAIN storage.vscode_workspace[1]

\* ------------------------------------------------------ Execution Gateway
\* A text is the sequence of its lines (text.split('\n')): the empty string
\* is the one empty line.
EmptyText == <<"">>

\* text1 + text2: the last line of the first runs on into the first line of
\* the second.
concat(a, b) ==
  SubSeq(a, 1, Len(a) - 1) \o <<a[Len(a)] \o b[1]>> \o SubSeq(b, 2, Len(b))

\* The replace chain of decodeHtmlEntities on one line.
decodeLine(line) ==
  CASE line = "a &lt; b" -> "a < b"
    [] line = "&amp;lt;" -> "&lt;"
    [] line = "&lt;" -> "<"
    [] OTHER -> line

decodeHtmlEntities(text) == [ i \in 1..Len(text) |-> decodeLine(text[i]) ]

\* The replace chain of cleanErrorMessage on one line, and line.trim(): the
\* entities, then main.cpp:l:c:, the echo of the source line number, and
\* whatever follows note:.
replaceLine(line) ==
  CASE line = "a &lt; b" -> "a < b"
    [] line = "&amp;lt;" -> "&lt;"
    [] line = "main.cpp:5:5: error: expected ';' before 'return'"
         -> "error: expected ';' before 'return'"
    [] line = "main.cpp:4:7: warning: unused variable 'x'"
         -> "warning: unused variable 'x'"
    [] line = "main.cpp:4:13: error: invalid conversion from 'int' to 'char*'"
         -> "error: invalid conversion from 'int' to 'char*'"
    [] line = "    5 |     return 0;" -> "return 0;"
    [] line = "main.cpp:1:1: note: declared here" -> ""
    [] OTHER -> line

\* The filter of cleanErrorMessage: an empty line and a line that includes
\* 'conversion' (among other words) are dropped.
keptLine(line) ==
  /\ line # ""
  /\ line # "error: invalid conversion from 'int' to 'char*'"

cleanErrorMessage(message) ==
  LET lines == SelectSeq([ i \in 1..Len(message) |-> replaceLine(message[i]) ],
                         keptLine)
  IN IF message = EmptyText \/ lines = <<>> THEN EmptyText ELSE lines

\* cleanedError.split('\n').filter(line => line.includes('error:'))
errorLines(cleanedError) ==
  SelectSeq(cleanedError,
            LAMBDA line :
              line \in { "error: expected ';' before 'return'",
                         "error: invalid conversion from 'int' to 'char*'" })

\* An ExecutionResult { output, success, error? }: error is <<>> when the
\* field is absent.
ExecutionResult(output, success, error) ==
  [ output |-> output, success |-> success, error |-> error ]

\* What executeCode leaves: the promise resolved with result, or rejected;
\* console.log as the number of wrappers around the function of the host;
\* the number of requests sent to the remote service.
settled(result, rejected, consoleLog, requests) ==
  [ result |-> result, rejected |-> rejected, consoleLog |-> consoleLog,
    requests |-> requests ]

NoResult == ExecutionResult(EmptyText, FALSE, <<>>)

\* The programs handed to eval, by what eval(code) does with them: the lines
\* they log, and how they end.
JsCodes ==
  { "", "console.log('hi')", "foo(", "x", "console.log(1); throw new Error('boom')",
    "throw 'oops'", "throw null" }

\* The lines the code has passed to console.log when eval returns or throws.
logged(code) ==
  CASE code = "console.log('hi')" -> <<"hi">>
    [] code = "console.log(1); throw new Error('boom')" -> <<"1">>
    [] OTHER -> <<>>

\* What eval(code) throws: nothing, an Error with a message, or a value that
\* is no Error (a string, null).
thrown(code) ==
  CASE code = "foo(" -> [ kind |-> "Error",
                          message |-> "missing ) after argument list" ]
    [] code = "x" -> [ kind |-> "Error", message |-> "x is not defined" ]
    [] code = "console.log(1); throw new Error('boom')"
         -> [ kind |-> "Error", message |-> "boom" ]
    [] code = "throw 'oops'" -> [ kind |-> "string", message |-> "" ]
    [] code = "throw null" -> [ kind |-> "null", message |-> "" ]
    [] OTHER -> [ kind |-> "none", message |-> "" ]

\* The clean-up of error.message in the catch block.
cleanUp(errorMessage) ==
  CASE errorMessage = "missing ) after argument list"
         -> "Syntax Error: Missing closing parenthesis"
    [] OTHER -> errorMessage

\* executeJavaScript: the try block puts a wrapper in the place of
\* console.log and takes it away after eval; the catch block assigns
\* console.log to itself, reads error.message (a TypeError for null) and
\* calls includes on it (a TypeError for the undefined message of a string).
executeJavaScript(code, consoleLog) ==
  LET error == thrown(code)
  IN IF error.kind = "none"
     THEN settled(ExecutionResult(
                    IF logged(code) = <<>>
                    THEN <<"Code executed successfully (no output)">>
                    ELSE logged(code),
                    TRUE, <<>>),
                  FALSE, consoleLog, 0)
     ELSE IF error.kind = "Error"
     THEN settled(ExecutionResult(<<cleanUp(error.message)>>, FALSE,
                                  <<cleanUp(error.message)>>),
                  FALSE, consoleLog + 1, 0)
     ELSE settled(NoResult, TRUE, consoleLog + 1, 0)

\* What the remote service does with the one request: fetch rejects, the
\* status is not OK, response.json() rejects, or the body is parsed. A body
\* is null or an object whose compile and run are <<>> when absent.
Body(isNull, compile, run) ==
  [ isNull |-> isNull, compile |-> compile, run |-> run ]

NoBody == Body(FALSE, <<>>, <<>>)

CompileStderrs ==
  { EmptyText,
    << "main.cpp:4:7: warning: unused variable 'x'",
       "main.cpp:5:5: error: expected ';' before 'return'",
       "    5 |     return 0;" >>,
    << "main.cpp:4:13: error: invalid conversion from 'int' to 'char*'",
       "main.cpp:1:1: note: declared here" >> }

Stdouts == { EmptyText, <<"hello">>, <<"a &lt; b">> }

Stderrs == { EmptyText, <<"Segmentation fault">> }

ExitCodes == { 0, 1 }

Bodies ==
  { Body(TRUE, <<>>, <<>>) }
  \cup { Body(FALSE, compile, run) :
           compile \in { <<>> } \cup { <<[ stderr |-> e ]>> : e \in CompileStderrs },
           run \in { <<>> }
                   \cup { <<[ stdout |-> o, stderr |-> e, code |-> c ]>> :
                            o \in Stdouts, e \in Stderrs, c \in ExitCodes } }

RemoteOutcomes ==
  { [ kind |-> k, body |-> NoBody ] : k \in { "rejects", "status", "syntax" } }
  \cup { [ kind |-> "body", body |-> b ] : b \in Bodies }

\* No request is made.
NoRemote == [ kind |-> "none", body |-> NoBody ]

\* The catch block of executeCode.
failed(message) ==
  ExecutionResult(<<"Error: " \o message>>, FALSE, <<message>>)

\* `Process exited with code ${result.run.code}`
exitMessage(code) ==
  CASE code = 1 -> "Process exited with code 1"
    [] code = 0 -> "Process exited with code 0"

\* The branch of a compile stderr that is not empty, without the header:
\* the first line holding 'error:' or the whole cleaned text.
compileOutput_raw(compileStderr) ==
  LET cleanedError == cleanErrorMessage(compileStderr)
  IN IF errorLines(cleanedError) # <<>>
     THEN <<errorLines(cleanedError)[1]>>
     ELSE cleanedError

\* The branch of a compile stderr that is not empty.
compileOutput(compileStderr) ==
  LET cleanedError == cleanErrorMessage(compileStderr)
      mainError == IF errorLines(cleanedError) # <<>>
                   THEN <<errorLines(cleanedError)[1]>>
                   ELSE cleanedError
  IN IF cleanedError # EmptyText
     THEN <<"Compilation Error:">> \o mainError
     ELSE <<"Compilation failed - please check your code syntax">>

\* The branch of a run: stdout, then stderr, then the exit code when it is
\* not 0 and there is no stderr.
runOutput(run) ==
  LET stdout == IF run.stdout # EmptyText
                THEN cleanErrorMessage(run.stdout) ELSE EmptyText
      stderr == IF run.stderr # EmptyText
                THEN concat(stdout, cleanErrorMessage(run.stderr)) ELSE stdout
  IN IF run.code # 0 /\ run.stderr = EmptyText
     THEN concat(stderr, <<"", exitMessage(run.code)>>)
     ELSE stderr

\* hasError of the run branch, were the exit code not looked at.
runHasError_stderrOnly(run) ==
  run.stderr # EmptyText

\* hasError of the run branch.
runHasError(run) ==
  run.stderr # EmptyText \/ run.code # 0

\* The lines of executeCode after await response.json().
interpret(result) ==
  LET compileStderr == IF result.compile # <<>>
                       THEN result.compile[1].stderr ELSE EmptyText
      outputText ==
        IF compileStderr # EmptyText THEN compileOutput(compileStderr)
        ELSE IF result.run # <<>> THEN runOutput(result.run[1])
        ELSE EmptyText
      hasError ==
        \/ compileStderr # EmptyText
        \/ result.run # <<>> /\ runHasError(result.run[1])
  IN IF result.isNull
     THEN failed("Cannot read properties of null (reading 'compile')")
     ELSE ExecutionResult(
            IF decodeHtmlEntities(outputText) # EmptyText
            THEN decodeHtmlEntities(outputText) ELSE <<"No output">>,
            ~hasError,
            IF hasError THEN <<"Execution failed">> ELSE <<>>)

\* executeCode, were a request that failed sent once more.
executeCode_retry(request, remote, consoleLog) ==
  IF request.language = "javascript"
  THEN executeJavaScript(request.code, consoleLog)
  ELSE settled(
         CASE remote.kind = "rejects" -> failed("Failed to fetch")
           [] remote.kind = "status"
                -> failed("Execution failed with status: 500")
           [] remote.kind = "syntax"
                -> failed("Unexpected token '<', \"<html>\" is not valid JSON")
           [] OTHER -> interpret(remote.body),
         FALSE, consoleLog,
         IF remote.kind \in { "rejects", "status" } THEN 2 ELSE 1)

\* executeCode(request) with the remote service answering the one request it
\* may send as `remote` says.
executeCode(request, remote, consoleLog) ==
  IF request.language = "javascript"
  THEN executeJavaScript(request.code, consoleLog)
  ELSE settled(
         CASE remote.kind = "rejects" -> failed("Failed to fetch")
           [] remote.kind = "status"
                -> failed("Execution failed with status: 500")
           [] remote.kind = "syntax"
                -> failed("Unexpected token '<', \"<html>\" is not valid JSON")
           [] OTHER -> interpret(remote.body),
         FALSE, consoleLog, 1)

\* The last call of executeCode: the request, what the remote service did,
\* and how the call has settled.
ExecutionCall(request, remote, s, consoleLogBefore) ==
  [ language |-> request.language, code |-> request.code, remote |-> remote,
    result |-> s.result, rejected |-> s.rejected, requests |-> s.requests,
    consoleLogBefore |-> consoleLogBefore ]

NoCall ==
  ExecutionCall([ language |-> "", code |-> "" ], NoRemote,
                settled(NoResult, FALSE, 0, 0), 0)

\* --------------------------------------------------- CodeTemplateService
\* A template is the text of its first line and the language it is written
\* in; the templates sent by the remote service are texts of their own.

\* getBoilerplateCode(problemTitle, language): the title is not looked at.
getBoilerplateCode(problemTitle, language) ==
  IF language \in Languages THEN "Hello, World!." \o language ELSE ""

\* getGenericTemplate(language)
getGenericTemplate(language) ==
  IF language \in Languages
  THEN "Write your solution here." \o language
  ELSE "// Your solution here"

\* The titles of the problems; "" is a title that is not given.
Titles == { "", "Two Sum", "Valid Parentheses", "Longest Palindrome", "Power of Three" }

\* problemTitle.toLowerCase() on the titles of the model.
lowerTitle(problemTitle) ==
  CASE problemTitle = "Two Sum" -> "two sum"
    [] problemTitle = "Valid Parentheses" -> "valid parentheses"
    [] problemTitle = "Longest Palindrome" -> "longest palindrome"
    [] problemTitle = "Power of Three" -> "power of three"
    [] OTHER -> problemTitle

\* title.includes(word), for the words generateMeaningfulTemplate looks for.
includes(title, word) ==
  \/ title = "two sum" /\ word = "two sum"
  \/ title = "valid parentheses" /\ word \in { "valid parentheses", "parentheses" }
  \/ title = "longest palindrome" /\ word = "palindrome"

\* generateMeaningfulTemplate(language, problemTitle)
generateMeaningfulTemplate(language, problemTitle) ==
  LET title == lowerTitle(problemTitle)
      of(template) == IF language \in Languages
                      THEN template \o "." \o language
                      ELSE getGenericTemplate(language)
  IN IF problemTitle = "" THEN getGenericTemplate(language)
     ELSE IF includes(title, "two sum") \/ includes(title, "twosum")
     THEN of("twoSum")
     ELSE IF includes(title, "add two numbers") THEN of("addTwoNumbers")
     ELSE IF includes(title, "valid parentheses")
             \/ includes(title, "parentheses")
     THEN of("isValid")
     ELSE IF includes(title, "array") \/ includes(title, "list")
             \/ includes(title, "nums")
     THEN of("solve(nums)")
     ELSE IF includes(title, "string") \/ includes(title, "substring")
             \/ includes(title, "palindrome")
     THEN of("solve(s)")
     ELSE getGenericTemplate(language)

\* text.trim()
trim(text) == IF text = "  " THEN "" ELSE text

\* The problems whose templates are asked for, and the languages.
ProblemIds == { "p1", "p2" }

TemplateLanguages == { "python", "cpp" }

\* sampleCode of a response: for every language <<>> or a CodeTemplate.
SampleCodes ==
  { [ l \in Languages |->
        IF l \in present THEN <<[ visibleCode |-> code ]>> ELSE <<>> ] :
      present \in { Languages, { "cpp" } },
      code \in { "remote template", "", "  " } }

NoSampleCode == [ l \in Languages |-> <<>> ]

\* What compilerAPI.getCode does: the request fails, the response says
\* success: false, or it holds sampleCode.
ApiOutcomes ==
  { [ kind |-> k, sampleCode |-> NoSampleCode ] : k \in { "rejects", "fails" } }
  \cup { [ kind |-> "ok", sampleCode |-> c ] : c \in SampleCodes }

\* What problemsAPI.getProgress does: the request fails, or the response
\* holds visibleCodeByLanguage with these keys, in this order.
Progresses ==
  { [ kind |-> "rejects", codes |-> <<>> ],
    [ kind |-> "ok", codes |-> <<>> ],
    [ kind |-> "ok",
      codes |-> << [ language |-> "python", visibleCode |-> "my code" ],
                   [ language |-> "cpp", visibleCode |-> "my code" ] >> ] }

\* The forEach that merges the progress into sampleCode: an assignment to
\* the template of a language that sampleCode does not hold throws, which
\* ends the merge and leaves what was merged before.
RECURSIVE merge(_, _, _)
merge(sampleCode, codes, i) ==
  IF i > Len(codes) \/ sampleCode[codes[i].language] = <<>>
  THEN sampleCode
  ELSE merge([ sampleCode EXCEPT ![codes[i].language] =
                                   <<[ visibleCode |-> codes[i].visibleCode ]>> ],
             codes, i + 1)

\* The cache: for every problem <<>> or the sampleCode that has been cached.
NoCache == [ p \in ProblemIds |-> <<>> ]

\* fetchCodeTemplates(problemId): templates is <<>> for null.
fetchCodeTemplates(templateCache, problemId, api, progress) ==
  IF templateCache[problemId] # <<>>
  THEN [ templates |-> templateCache[problemId], templateCache |-> templateCache ]
  ELSE IF api.kind = "rejects" \/ api.kind = "fails"
  THEN [ templates |-> <<>>, templateCache |-> templateCache ]
  ELSE LET merged == IF progress.kind = "ok"
                     THEN merge(api.sampleCode, progress.codes, 1)
                     ELSE api.sampleCode
       IN [ templates |-> <<merged>>,
            templateCache |-> [ templateCache EXCEPT ![problemId] = <<merged>> ] ]

\* fetchOriginalCodeTemplates(problemId)
fetchOriginalCodeTemplates(problemId, api) ==
  IF api.kind = "ok" THEN <<api.sampleCode>> ELSE <<>>

\* templates && templates[language]?.visibleCode, <<>> when it is not there.
visibleCode(templates, language) ==
  IF templates = <<>> \/ templates[1][language] = <<>>
  THEN <<>> ELSE <<templates[1][language][1].visibleCode>>

\* What a call leaves: the promise resolved with result, or rejected, and
\* the cache.
answered(result, remote, templateCache) ==
  [ result |-> result, rejected |-> FALSE, remote |-> remote,
    templateCache |-> templateCache ]

\* getVisibleCode(problemId, language, problemTitle)
getVisibleCode(templateCache, problemId, language, problemTitle, api, progress) ==
  LET f == fetchCodeTemplates(templateCache, problemId, api, progress)
      remote == visibleCode(f.templates, language)
  IN answered(
       IF remote # <<>> /\ remote[1] # "" THEN remote[1]
       ELSE IF problemTitle # ""
               /\ trim(getBoilerplateCode(problemTitle, language)) # ""
       THEN getBoilerplateCode(problemTitle, language)
       ELSE getGenericTemplate(language),
       remote, f.templateCache)

\* getOriginalVisibleCode(problemId, language, problemTitle)
getOriginalVisibleCode(templateCache, problemId, language, problemTitle, api) ==
  LET remote == visibleCode(fetchOriginalCodeTemplates(problemId, api), language)
  IN answered(
       IF remote # <<>> /\ remote[1] # "" /\ trim(remote[1]) # ""
       THEN remote[1]
       ELSE IF problemTitle # ""
               /\ trim(getBoilerplateCode(problemTitle, language)) # ""
       THEN getBoilerplateCode(problemTitle, language)
       ELSE generateMeaningfulTemplate(language, problemTitle),
       remote, templateCache)

\* The last call of the service: its arguments, the template the remote
\* service has for the language (<<>> for none), and what it has returned.
TemplateCall(method, language, problemTitle, a) ==
  [ method |-> method, language |-> language, problemTitle |-> problemTitle,
    remote |-> a.remote, result |-> a.result, rejected |-> a.rejected ]

NoTemplateCall == TemplateCall("", "", "", answered("", <<>>, NoCache))

\* ------------------------------------------------------- WorkspaceService
\* Every method is an operator from the workspace and the arguments to
\*   workspace: the workspace after the call,
\*   result:    what the call returns ("null", "true", "false", "file",
\*              "folder"), or "throw" when it throws,
\*   saved:     whether the call has reached this.saveWorkspace(),
\*   node:      the object created, Null when none.
outcome(ws, result, saved, node) ==
  [ workspace |-> ws, result |-> result, saved |-> saved, node |-> node ]

\* parent.children.push(object), the object allocated at address id.
pushChild(ws, parent, id, object) ==
  [ ws EXCEPT !.objects =
      [ a \in DOMAIN ws.objects \cup {id} |->
          IF a = id THEN object
          ELSE IF a = parent
               THEN [ ws.objects[a] EXCEPT !.children = Append(@, id) ]
               ELSE ws.objects[a] ] ]

createFile(ws, parentPath, name, language, id) ==
  LET parent == findItemByPath(ws.objects, parentPath, ws.root)
      fileLanguage == IF language # NoLanguage THEN language
                      ELSE getLanguageFromExtension(name)
      newFile == [ id |-> id, name |-> name,
                   path |-> childPath(parentPath, name),
                   language |-> fileLanguage,
                   content |-> DEFAULT_CODE[fileLanguage],
                   isSaved |-> FALSE ]
  IN IF parent = Null \/ ~isFolder(ws.objects[parent])
     THEN outcome(ws, "null", FALSE, Null)
     ELSE IF nameTaken(ws, parent, name)
     THEN outcome(ws, "throw", FALSE, Null)
     ELSE outcome(pushChild(ws, parent, id, newFile), "file", TRUE, id)

\* createFolder with a parentPath that resolves to nothing falling back to
\* the root folder (findItemByPath(parentPath) || this.workspace.root).
createFolder_underRoot(ws, parentPath, name, id) ==
  LET found == findItemByPath(ws.objects, parentPath, ws.root)
      parent == IF found = Null THEN ws.root ELSE found
      newFolder == [ id |-> id, name |-> name,
                     path |-> childPath(parentPath, name),
                     children |-> <<>> ]
  IN IF ~isFolder(ws.objects[parent])
     THEN outcome(ws, "null", FALSE, Null)
     ELSE IF nameTaken(ws, parent, name)
     THEN outcome(ws, "throw", FALSE, Null)
     ELSE outcome(pushChild(ws, parent, id, newFolder), "folder", TRUE, id)

createFolder(ws, parentPath, name, id) ==
  LET parent == findItemByPath(ws.objects, parentPath, ws.root)
      newFolder == [ id |-> id, name |-> name,
                     path |-> childPath(parentPath, name),
                     children |-> <<>> ]
  IN IF parent = Null \/ ~isFolder(ws.objects[parent])
     THEN outcome(ws, "null", FALSE, Null)
     ELSE IF nameTaken(ws, parent, name)
     THEN outcome(ws, "throw", FALSE, Null)
     ELSE outcome(pushChild(ws, parent, id, newFolder), "folder", TRUE, id)

\* writeFile without the line file.isSaved = true.
writeFile_keepsFlag(ws, path, content) ==
  LET file == readFile(ws, path)
  IN IF file = Null THEN outcome(ws, "false", FALSE, Null)
     ELSE outcome([ ws EXCEPT !.objects[file].content = content ],
                  "true", TRUE, Null)

writeFile(ws, path, content) ==
  LET file == readFile(ws, path)
  IN IF file = Null THEN outcome(ws, "false", FALSE, Null)
     ELSE outcome([ ws EXCEPT !.objects[file].content = content,
                              !.objects[file].isSaved = TRUE ],
                  "true", TRUE, Null)

markFileUnsaved(ws, path) ==
  LET file == readFile(ws, path)
  IN IF file = Null THEN outcome(ws, "false", FALSE, Null)
     ELSE outcome([ ws EXCEPT !.objects[file].isSaved = FALSE ],
                  "true", TRUE, Null)

\* parent.children.some(child => child.name === newName && child.path !== path)
renameCollides(ws, parent, path, newName) ==
  \E i \in 1..Len(ws.objects[parent].children) :
     LET child == ws.objects[ws.objects[parent].children[i]]
     IN child.name = newName /\ child.path # path

rename(ws, path, newName) ==
  LET item == findItemByPath(ws.objects, path, ws.root)
      parent == findParentFolder(ws, path)
      newPath == SubSeq(path, 1, lastIndexOf(path, Slash)) \o newName
      renamed == [ ws.objects[item] EXCEPT !.name = newName, !.path = newPath ]
  IN IF item = Null THEN outcome(ws, "false", FALSE, Null)
     ELSE IF parent = Null THEN outcome(ws, "false", FALSE, Null)
     ELSE IF renameCollides(ws, parent, path, newName)
     THEN outcome(ws, "throw", FALSE, Null)
     ELSE outcome(
            [ ws EXCEPT !.objects[item] =
                IF isFolder(renamed) THEN renamed
                ELSE [ renamed EXCEPT
                         !.language = getLanguageFromExtension(newName) ] ],
            "true", TRUE, Null)

\* parent.children.findIndex(child => child.path === path), 1-based; 0 for -1.
findIndex(ws, parent, path) ==
  LET children == ws.objects[parent].children
      hits == { i \in 1..Len(children) : ws.objects[children[i]].path = path }
  IN IF hits = {} THEN 0 ELSE CHOOSE i \in hits : \A j \in hits : i <= j

\* children.splice(index, 1)
splice(children, index) ==
  SubSeq(children, 1, index - 1) \o SubSeq(children, index + 1, Len(children))

\* delete without the line if (index === -1) return false: splice(-1, 1)
\* removes the last child.
delete_noIndexCheck(ws, path) ==
  LET parent == findParentFolder(ws, path)
      index == findIndex(ws, parent, path)
      children == ws.objects[parent].children
  IN IF parent = Null THEN outcome(ws, "false", FALSE, Null)
     ELSE outcome(
            [ ws EXCEPT !.objects[parent].children =
                splice(@, IF index = 0 THEN Len(children) ELSE index) ],
            "true", TRUE, Null)

\* delete with splice(index) for splice(index, 1): every child from index on
\* is removed.
delete_spliceAll(ws, path) ==
  LET parent == findParentFolder(ws, path)
      index == findIndex(ws, parent, path)
  IN IF parent = Null THEN outcome(ws, "false", FALSE, Null)
     ELSE IF index = 0 THEN outcome(ws, "false", FALSE, Null)
     ELSE outcome(
            [ ws EXCEPT !.objects[parent].children = SubSeq(@, 1, index - 1) ],
            "true", TRUE, Null)

delete(ws, path) ==
  LET parent == findParentFolder(ws, path)
      index == findIndex(ws, parent, path)
  IN IF parent = Null THEN outcome(ws, "false", FALSE, Null)
     ELSE IF index = 0 THEN outcome(ws, "false", FALSE, Null)
     ELSE outcome(
            [ ws EXCEPT !.objects[parent].children = splice(@, index) ],
            "true", TRUE, Null)

\* ------------------------------------------------------------ CodeCompiler
\* An open tab holds a VFile: either the very object of the workspace tree
\* (ref is its address: readFile hands out the object, not a copy) or a copy
\* made by an object spread (ref is Null and copy holds the fields).
NoCopy ==
  [ id |-> Null, name |-> <<>>, path |-> <<>>, language |-> "",
    content |-> "", isSaved |-> FALSE ]
aliasTab(file) == [ ref |-> file, copy |-> NoCopy ]
copyTab(fields) == [ ref |-> Null, copy |-> fields ]

\* The fields a handler reads through a tab.
tabFile(O, tab) == IF tab.ref # Null THEN O[tab.ref] ELSE tab.copy

\* openTabs.find(tab => tab.id === activeTabId) || null, as an index; 0 for
\* null.
activeFile(O, tabs, activeId) ==
  LET hits == { i \in 1..Len(tabs) : tabFile(O, tabs[i]).id = activeId }
  IN IF hits = {} THEN 0 ELSE CHOOSE i \in hits : \A j \in hits : i <= j

\* An object that leaves the tree stays alive for the tabs that hold it and
\* can no longer change: such a tab is kept as a copy of its fields.
detach(O, tabs, alive) ==
  [ i \in 1..Len(tabs) |->
      IF tabs[i].ref # Null /\ tabs[i].ref \notin alive
      THEN copyTab(O[tabs[i].ref]) ELSE tabs[i] ]

\* The effect that saves the tabs, run after a render in which openTabs or
\* activeTabId has changed: setOpenTabs, then setActiveTabId unless
\* setOpenTabs has thrown.
saveTabsEffect(storage, O, tabs, activeId, tabsThrow, activeThrow) ==
  LET tabData == [ i \in 1..Len(tabs) |->
                     [ fileId |-> tabFile(O, tabs[i]).id,
                       filePath |-> tabFile(O, tabs[i]).path ] ]
      first == setOpenTabs(storage, tabData, tabsThrow)
  IN IF first.raised THEN first
     ELSE setActiveTabId(first.storage, activeId, activeThrow)

handleFileSelect(ws, tabs, activeId, path) ==
  LET freshFile == readFile(ws, path)
      freshPath == ws.objects[freshFile].path
      existing == \E i \in 1..Len(tabs) :
                     tabFile(ws.objects, tabs[i]).path = freshPath
  IN IF freshFile = Null
     THEN [ openTabs |-> tabs, activeTabId |-> activeId ]
     ELSE IF existing
     THEN [ openTabs |->
              [ i \in 1..Len(tabs) |->
                  IF tabFile(ws.objects, tabs[i]).path = freshPath
                  THEN aliasTab(freshFile) ELSE tabs[i] ],
            activeTabId |-> ws.objects[freshFile].id ]
     ELSE [ openTabs |-> Append(tabs, aliasTab(freshFile)),
            activeTabId |-> ws.objects[freshFile].id ]

\* handleCodeChange without the line workspaceService['saveWorkspace']().
handleCodeChange_noSave(ws, tabs, activeId, content) ==
  LET active == activeFile(ws.objects, tabs, activeId)
      before == tabFile(ws.objects, tabs[active])
      file == readFile(ws, before.path)
      written == IF file = Null THEN ws
                 ELSE [ ws EXCEPT !.objects[file].content = content,
                                  !.objects[file].isSaved = FALSE ]
      updatedFile == [ tabFile(written.objects, tabs[active]) EXCEPT
                         !.content = content, !.isSaved = FALSE ]
  IN IF active = 0
     THEN [ workspace |-> ws, openTabs |-> tabs, found |-> FALSE,
            saved |-> FALSE ]
     ELSE [ workspace |-> written,
            openTabs |->
              [ i \in 1..Len(tabs) |->
                  IF tabFile(written.objects, tabs[i]).id = before.id
                  THEN copyTab(updatedFile) ELSE tabs[i] ],
            found |-> file # Null,
            saved |-> FALSE ]

handleCodeChange(ws, tabs, activeId, content) ==
  LET active == activeFile(ws.objects, tabs, activeId)
      before == tabFile(ws.objects, tabs[active])
      file == readFile(ws, before.path)
      written == IF file = Null THEN ws
                 ELSE [ ws EXCEPT !.objects[file].content = content,
                                  !.objects[file].isSaved = FALSE ]
      updatedFile == [ tabFile(written.objects, tabs[active]) EXCEPT
                         !.content = content, !.isSaved = FALSE ]
  IN IF active = 0
     THEN [ workspace |-> ws, openTabs |-> tabs, found |-> FALSE,
            saved |-> FALSE ]
     ELSE [ workspace |-> written,
            openTabs |->
              [ i \in 1..Len(tabs) |->
                  IF tabFile(written.objects, tabs[i]).id = before.id
                  THEN copyTab(updatedFile) ELSE tabs[i] ],
            found |-> file # Null,
            saved |-> file # Null ]

handleSave(ws, tabs, activeId) ==
  LET active == activeFile(ws.objects, tabs, activeId)
      before == tabFile(ws.objects, tabs[active])
      w == writeFile(ws, before.path, before.content)
      updatedFile == [ tabFile(w.workspace.objects, tabs[active]) EXCEPT
                         !.isSaved = TRUE ]
  IN IF active = 0
     THEN [ workspace |-> ws, openTabs |-> tabs, found |-> FALSE,
            saved |-> FALSE ]
     ELSE [ workspace |-> w.workspace,
            openTabs |->
              [ i \in 1..Len(tabs) |->
                  IF tabFile(w.workspace.objects, tabs[i]).id = before.id
                  THEN copyTab(updatedFile) ELSE tabs[i] ],
            found |-> w.result = "true",
            saved |-> w.saved ]

\* The table DEFAULT_CODE of handleReset: its cpp and java templates end
\* their lines with \n where the templates of the service end them with \r\n.
handleReset_DEFAULT_CODE ==
  [ l \in Languages |->
      CASE l = "c" -> "DEFAULT_CODE.c"
        [] l = "cpp" -> "handleReset.DEFAULT_CODE.cpp"
        [] l = "java" -> "handleReset.DEFAULT_CODE.java"
        [] l = "javascript" -> "DEFAULT_CODE.javascript"
        [] l = "python" -> "DEFAULT_CODE.python" ]

handleReset(ws, tabs, activeId) ==
  LET active == activeFile(ws.objects, tabs, activeId)
      before == tabFile(ws.objects, tabs[active])
      defaultContent == handleReset_DEFAULT_CODE[before.language]
      updatedFile == [ before EXCEPT !.content = defaultContent,
                                     !.isSaved = FALSE ]
      file == readFile(ws, before.path)
      written == IF file = Null THEN ws
                 ELSE [ ws EXCEPT !.objects[file].content = defaultContent,
                                  !.objects[file].isSaved = FALSE ]
  IN IF active = 0
     THEN [ workspace |-> ws, openTabs |-> tabs, found |-> FALSE,
            saved |-> FALSE ]
     ELSE [ workspace |-> written,
            openTabs |->
              [ i \in 1..Len(tabs) |->
                  IF tabFile(ws.objects, tabs[i]).id = before.id
                  THEN copyTab(updatedFile) ELSE tabs[i] ],
            found |-> file # Null,
            saved |-> file # Null ]

\* handleTabClose(file), the file being the tab at index k: the tabs and the
\* active id it hands to setOpenTabs and to setActiveTabId.
handleTabClose(O, tabs, activeId, k) ==
  LET id == tabFile(O, tabs[k]).id
      newTabs == SelectSeq(tabs, LAMBDA tab : tabFile(O, tab).id # id)
      currentIndex == activeFile(O, tabs, id)
      nextTab == IF currentIndex <= Len(newTabs)
                 THEN tabFile(O, newTabs[currentIndex]).id
                 ELSE IF currentIndex - 1 >= 1
                 THEN tabFile(O, newTabs[currentIndex - 1]).id
                 ELSE Null
  IN [ openTabs |-> newTabs,
       activeTabId |-> IF activeId = id THEN nextTab ELSE activeId ]

\* targets.forEach(t => onTabClose(t)) inside one event handler: every call
\* reads the openTabs and the activeTabId of the render the handler belongs
\* to; the last setOpenTabs and the last setActiveTabId are the ones kept.
RECURSIVE closeEach(_, _, _, _, _, _)

closeEach(O, tabs, activeId, targets, i, kept) ==
  IF i > Len(targets) THEN kept
  ELSE LET r == handleTabClose(O, tabs, activeId, targets[i])
       IN closeEach(O, tabs, activeId, targets, i + 1,
                    [ openTabs |-> r.openTabs,
                      activeTabId |->
                        IF tabFile(O, tabs[targets[i]]).id = activeId
                        THEN r.activeTabId ELSE kept.activeTabId ])

\* The indices lo..hi of the tabs whose id is not `id`, in ascending order.
RECURSIVE others(_, _, _, _, _)

others(O, tabs, id, lo, hi) ==
  IF lo > hi THEN <<>>
  ELSE IF tabFile(O, tabs[lo]).id # id
  THEN <<lo>> \o others(O, tabs, id, lo + 1, hi)
  ELSE others(O, tabs, id, lo + 1, hi)

\* case 'closeOthers' of the tab at index k.
closeOthers(O, tabs, activeId, k) ==
  closeEach(O, tabs, activeId,
            others(O, tabs, tabFile(O, tabs[k]).id, 1, Len(tabs)), 1,
            [ openTabs |-> tabs, activeTabId |-> activeId ])

\* case 'closeToRight' of the tab at index k: tabs.slice(tabIndex + 1).
closeToRight(O, tabs, activeId, k) ==
  LET tabIndex == activeFile(O, tabs, tabFile(O, tabs[k]).id)
  IN closeEach(O, tabs, activeId,
               [ i \in 1..(Len(tabs) - tabIndex) |-> tabIndex + i ], 1,
               [ openTabs |-> tabs, activeTabId |-> activeId ])

\* savedTabs.map(tab => workspaceService.readFile(tab.filePath))
\*          .filter(Boolean), from tab i on.
RECURSIVE restoredFiles(_, _, _)

restoredFiles(ws, savedTabs, i) ==
  IF i > Len(savedTabs) THEN <<>>
  ELSE LET file == readFile(ws, savedTabs[i].filePath)
       IN (IF file = Null THEN <<>> ELSE <<aliasTab(file)>>)
          \o restoredFiles(ws, savedTabs, i + 1)

\* The effect that loads the initial state: the tabs and the active id it
\* sets, over the initial state of no tab and no active id.
loadEffect(ws, storage) ==
  LET savedTabs == getOpenTabs(storage)
      savedActiveId == getActiveTabId(storage)
      files == restoredFiles(ws, savedTabs, 1)
  IN IF Len(savedTabs) > 0
     THEN [ openTabs |-> files,
            activeTabId |->
              IF /\ savedActiveId # Null
                 /\ \E i \in 1..Len(files) :
                      tabFile(ws.objects, files[i]).id = savedActiveId
              THEN savedActiveId
              ELSE IF Len(files) > 0 THEN tabFile(ws.objects, files[1]).id
              ELSE Null ]
     ELSE [ openTabs |-> <<>>, activeTabId |-> Null ]

\* ------------------------------------------------------------ FileExplorer
\* const allowedExtensions = ['c', 'cpp', 'cc', 'cxx', 'java', 'js', 'py']
allowedExtensions ==
  { <<"c">>, <<"cpp">>, <<"cc">>, <<"cxx">>, <<"java">>, <<"js">>, <<"py">> }

\* handleCreateItem, up to the call of onFileSelect: the result is
\* "validation" when the name is turned down, "error" when the store has
\* thrown and the catch block shows the message.
handleCreateItem(ws, type, parentPath, name, id) ==
  LET ext == toLowerCase(splitPop(name))
      r == IF type = "file"
           THEN createFile(ws, parentPath, name,
                           getLanguageFromExtension(name), id)
           ELSE createFolder(ws, parentPath, name, id)
  IN IF type = "file" /\ (ext = <<>> \/ ext \notin allowedExtensions)
     THEN outcome(ws, "validation", FALSE, Null)
     ELSE IF r.result = "throw" THEN outcome(ws, "error", FALSE, Null)
     ELSE r

\* file.name.replace(/\.[^/.]+$/, "") + '_copy' + extension, the extension
\* being '.' + file.name.split('.').pop() for a name with a '.'.
copyName(name) ==
  LET dot == lastIndexOf(name, Dot)
      baseName == IF dot # 0 /\ dot < Len(name) THEN SubSeq(name, 1, dot - 1)
                  ELSE name
      extension == IF dot # 0 THEN <<Dot>> \o splitPop(name) ELSE <<>>
      stem == IF baseName = <<>> \/ baseName[Len(baseName)] = Dot
              THEN Append(baseName, "_copy")
              ELSE [ baseName EXCEPT ![Len(baseName)] = @ \o "_copy" ]
  IN stem \o extension

\* The 'duplicate' case of handleContextAction for the file `file` of the
\* tree: createFile, and writeFile when createFile has returned a file.
\* saved is whether createFile has reached saveWorkspace, written whether
\* writeFile has.
duplicate(ws, file, id) ==
  LET target == ws.objects[file]
      made == createFile(ws, parentPathOf(target.path), copyName(target.name),
                         target.language, id)
      copied == writeFile(made.workspace, made.workspace.objects[id].path,
                          target.content)
  IN IF isFolder(target)
     THEN [ workspace |-> ws, result |-> "", saved |-> FALSE,
            written |-> FALSE, node |-> Null ]
     ELSE IF made.result = "throw"
     THEN [ workspace |-> ws, result |-> "error", saved |-> FALSE,
            written |-> FALSE, node |-> Null ]
     ELSE IF made.result = "null"
     THEN [ workspace |-> ws, result |-> "null", saved |-> FALSE,
            written |-> FALSE, node |-> Null ]
     ELSE [ workspace |-> copied.workspace, result |-> "file", saved |-> TRUE,
            written |-> copied.saved, node |-> id ]

\* ------------------------------------------------------------- the machine
\* The language arguments of createFile: none, or one given explicitly.
SuppliedLanguages == { NoLanguage, "java" }

\* The paths handed to the store: the path of every node, the path every
\* node would have under its parent's current path, and one no node has.
PathInputs(ws) ==
  LET O == ws.objects
  IN { O[a].path : a \in DOMAIN O }
     \cup UNION { { childPath(O[a].path, O[O[a].children[i]].name) :
                      i \in 1..Len(O[a].children) } :
                    a \in { b \in DOMAIN O : isFolder(O[b]) } }
     \cup { <<Slash, "missing">> }

\* The last call: its arguments, what it returned, whether a setItem inside
\* a try block threw (threw), and whether an exception left the call or an
\* effect it caused (effectRaised).
calls(op, path, name, content, language, result, node, threw) ==
  [ op |-> op, path |-> path, name |-> name, content |-> content,
    language |-> language, result |-> result, node |-> node,
    threw |-> threw, effectRaised |-> FALSE ]

\* What a method does with a workspace that is not usable.
fault(ws) == outcome(ws, "TypeError", FALSE, Null)

\* The state of the component that a run reads and writes, after the first
\* render: isRunning and terminalVisible; the isRunning seen by the render
\* whose handleKeyDown is registered; the calls of executeCode that have not
\* settled, oldest first.
NoSession ==
  [ isRunning |-> FALSE, terminalVisible |-> FALSE,
    keyboard |-> [ isRunning |-> FALSE ], inFlight |-> <<>> ]

Init ==
  /\ localStorage = [ vscode_workspace |-> NoItem, vscode_open_tabs |-> NoItem,
                      vscode_active_tab |-> NoItem, vscode_layout |-> NoItem ]
  /\ workspace = loadWorkspace(localStorage)
  /\ nextId = DefaultIds + 1
  /\ openTabs = <<>>
  /\ activeTabId = Null
  /\ mounted = TRUE
  /\ last = calls("new", <<>>, <<>>, "", "", "", Null, FALSE)
  /\ opCount = 0
  /\ gateway = [ consoleLog |-> 0, requests |-> 0, call |-> NoCall ]
  /\ session = NoSession
  /\ templateService = [ templateCache |-> NoCache, call |-> NoTemplateCall ]

\* The effect of one call of a store method with outcome r, setItem
\* throwing or not inside saveWorkspace, in a run of at most `budget`
\* operations.
storeCall(r, setItemThrows, budget) ==
  /\ opCount < budget
  /\ setItemThrows => r.saved
  /\ workspace' = collect(r.workspace)
  /\ localStorage' = IF r.saved
                     THEN saveWorkspace(r.workspace, localStorage, setItemThrows)
                     ELSE localStorage
  /\ openTabs' = detach(workspace.objects, openTabs,
                        DOMAIN collect(r.workspace).objects)
  /\ nextId' = IF r.node # Null THEN nextId + 1 ELSE nextId
  /\ opCount' = opCount + 1
  /\ UNCHANGED <<activeTabId, mounted, gateway, session, templateService>>

CreateFile(budget) ==
  \E parentPath \in PathInputs(workspace), name \in FileNames,
     language \in SuppliedLanguages, setItemThrows \in BOOLEAN :
    LET r == IF usable(workspace)
             THEN createFile(workspace, parentPath, name, language, nextId)
             ELSE fault(workspace)
    IN /\ storeCall(r, setItemThrows, budget)
       /\ last' = calls("createFile", parentPath, name, "", language,
                        r.result, r.node, setItemThrows)

CreateFolder(budget) ==
  \E parentPath \in PathInputs(workspace), name \in FolderNames,
     setItemThrows \in BOOLEAN :
    LET r == IF usable(workspace)
             THEN createFolder(workspace, parentPath, name, nextId)
             ELSE fault(workspace)
    IN /\ storeCall(r, setItemThrows, budget)
       /\ last' = calls("createFolder", parentPath, name, "", "",
                        r.result, r.node, setItemThrows)

WriteFile(budget) ==
  \E path \in PathInputs(workspace), content \in Contents,
     setItemThrows \in BOOLEAN :
    LET r == IF usable(workspace)
             THEN writeFile(workspace, path, content)
             ELSE fault(workspace)
    IN /\ storeCall(r, setItemThrows, budget)
       /\ last' = calls("writeFile", path, <<>>, content, "",
                        r.result, r.node, setItemThrows)

MarkFileUnsaved(budget) ==
  \E path \in PathInputs(workspace), setItemThrows \in BOOLEAN :
    LET r == IF usable(workspace)
             THEN markFileUnsaved(workspace, path)
             ELSE fault(workspace)
    IN /\ storeCall(r, setItemThrows, budget)
       /\ last' = calls("markFileUnsaved", path, <<>>, "", "",
                        r.result, r.node, setItemThrows)

Rename(budget) ==
  \E path \in PathInputs(workspace), newName \in NewNames,
     setItemThrows \in BOOLEAN :
    LET r == IF usable(workspace)
             THEN rename(workspace, path, newName)
             ELSE fault(workspace)
    IN /\ storeCall(r, setItemThrows, budget)
       /\ last' = calls("rename", path, newName, "", "",
                        r.result, r.node, setItemThrows)

Delete(budget) ==
  \E path \in PathInputs(workspace), setItemThrows \in BOOLEAN :
    LET r == IF usable(workspace)
             THEN delete(workspace, path)
             ELSE fault(workspace)
    IN /\ storeCall(r, setItemThrows, budget)
       /\ last' = calls("delete", path, <<>>, "", "",
                        r.result, r.node, setItemThrows)

\* activeFile of the render: the tab of the active id, <<>> for null.
activeTab ==
  LET active == activeFile(workspace.objects, openTabs, activeTabId)
  IN IF active = 0 THEN <<>> ELSE <<openTabs[active]>>

\* The effect that registers handleKeyDown, run after a render in which
\* activeFile or terminalVisible is not what it was in the render before
\* (activeView and isSettingsOpen, its other dependencies, are not part of
\* the model): the handler of that render takes the place of the old one,
\* and with it the isRunning that render has seen.
registered(s) == [ s EXCEPT !.keyboard.isRunning = s.isRunning ]

\* The renders after a handler that leaves isRunning and terminalVisible as
\* they are; `replaced` tells that the handler has put a new object in the
\* place of the active tab.
keyboardEffect(replaced) ==
  session' = IF mounted' /\ (replaced \/ activeTab' # activeTab)
             THEN registered(session) ELSE session

\* A handler of the component in a run of at most `budget` operations: it
\* runs while the component is mounted, and an exception that leaves an effect
\* tears the component tree down (no error boundary is above it).
handlerCall(budget, storage, raised) ==
  /\ opCount < budget
  /\ mounted
  /\ localStorage' = storage
  /\ mounted' = ~raised
  /\ opCount' = opCount + 1
  /\ UNCHANGED <<gateway, templateService>>

\* console.log is the function of the host again in a page that has been
\* loaded anew (Reload); no handler of the workspace touches the gateway.

\* The state is left as it is and no effect runs.
handlerReturns(budget) == handlerCall(budget, localStorage, FALSE)

\* The paths of the files a click can hand to handleFileSelect: the files the
\* explorer shows, and the tabs of the tab bar.
SelectInputs ==
  { workspace.objects[a].path :
      a \in { b \in DOMAIN workspace.objects : ~isFolder(workspace.objects[b]) } }
  \cup { tabFile(workspace.objects, openTabs[i]).path : i \in 1..Len(openTabs) }

\* A click on a file of the explorer or on a tab; setItem fails or not as
\* `failures` allows.
HandleFileSelect(budget, failures) ==
  \E path \in SelectInputs, tabsThrow \in failures, activeThrow \in failures :
    LET r == handleFileSelect(workspace, openTabs, activeTabId, path)
        found == readFile(workspace, path) # Null
        e == saveTabsEffect(localStorage, workspace.objects, r.openTabs,
                            r.activeTabId, tabsThrow, activeThrow)
        call == calls("handleFileSelect", path, <<>>, "", "",
                      IF found THEN "true" ELSE "false", Null, FALSE)
    IN /\ IF found
          THEN /\ (tabsThrow => e.raised) /\ (activeThrow => e.raised)
               /\ handlerCall(budget, e.storage, e.raised)
               /\ last' = [ call EXCEPT !.effectRaised = e.raised ]
          ELSE /\ ~tabsThrow /\ ~activeThrow
               /\ handlerReturns(budget)
               /\ last' = call
       /\ openTabs' = r.openTabs
       /\ activeTabId' = r.activeTabId
       /\ UNCHANGED <<workspace, nextId>>
       /\ keyboardEffect(FALSE)

\* The editor reports a content change of the active file.
HandleCodeChange(budget, failures) ==
  \E content \in Contents, setItemThrows \in failures,
     tabsThrow \in failures, activeThrow \in failures :
    LET r == handleCodeChange(workspace, openTabs, activeTabId, content)
        active == activeFile(workspace.objects, openTabs, activeTabId)
        saved == IF r.saved
                 THEN saveWorkspace(r.workspace, localStorage, setItemThrows)
                 ELSE localStorage
        e == saveTabsEffect(saved, r.workspace.objects, r.openTabs,
                            activeTabId, tabsThrow, activeThrow)
        call == calls("handleCodeChange", <<>>, <<>>, content, "",
                      IF r.found THEN "true" ELSE "false", Null,
                      setItemThrows)
    IN /\ setItemThrows => r.saved
       /\ IF active # 0
          THEN /\ (tabsThrow => e.raised) /\ (activeThrow => e.raised)
               /\ handlerCall(budget, e.storage, e.raised)
               /\ last' = [ call EXCEPT !.effectRaised = e.raised ]
          ELSE /\ ~tabsThrow /\ ~activeThrow
               /\ handlerReturns(budget)
               /\ last' = call
       /\ workspace' = r.workspace
       /\ openTabs' = r.openTabs
       /\ UNCHANGED <<nextId, activeTabId>>
       /\ keyboardEffect(active # 0)

\* An action of the editor on the active file whose outcome r holds the
\* workspace and the tabs after it: saveWorkspace where the handler reaches
\* it, then the effect that saves the tabs.
editorCall(op, r, budget, setItemThrows, tabsThrow, activeThrow) ==
  LET active == activeFile(workspace.objects, openTabs, activeTabId)
      saved == IF r.saved
               THEN saveWorkspace(r.workspace, localStorage, setItemThrows)
               ELSE localStorage
      e == saveTabsEffect(saved, r.workspace.objects, r.openTabs,
                          activeTabId, tabsThrow, activeThrow)
      call == calls(op, <<>>, <<>>, "", "",
                    IF r.found THEN "true" ELSE "false", Null, setItemThrows)
  IN /\ setItemThrows => r.saved
     /\ IF active # 0
        THEN /\ (tabsThrow => e.raised) /\ (activeThrow => e.raised)
             /\ handlerCall(budget, e.storage, e.raised)
             /\ last' = [ call EXCEPT !.effectRaised = e.raised ]
        ELSE /\ ~tabsThrow /\ ~activeThrow
             /\ handlerReturns(budget)
             /\ last' = call
     /\ workspace' = r.workspace
     /\ openTabs' = r.openTabs
     /\ UNCHANGED <<nextId, activeTabId>>
     /\ keyboardEffect(active # 0)

\* Ctrl+S, or the save button, on the active file.
HandleSave(budget, failures) ==
  \E setItemThrows \in failures, tabsThrow \in failures,
     activeThrow \in failures :
    editorCall("handleSave", handleSave(workspace, openTabs, activeTabId),
               budget, setItemThrows, tabsThrow, activeThrow)

\* The reset button of the tab bar.
HandleReset(budget, failures) ==
  \E setItemThrows \in failures, tabsThrow \in failures,
     activeThrow \in failures :
    editorCall("handleReset", handleReset(workspace, openTabs, activeTabId),
               budget, setItemThrows, tabsThrow, activeThrow)

\* An action of the tab bar on the tab at index k whose outcome r holds the
\* tabs and the active id after it; `called` tells whether handleTabClose
\* has run at all, and then the effect that saves the tabs runs.
tabsCall(op, k, r, called, budget, tabsThrow, activeThrow) ==
  LET tab == tabFile(workspace.objects, openTabs[k])
      e == saveTabsEffect(localStorage, workspace.objects, r.openTabs,
                          r.activeTabId, tabsThrow, activeThrow)
      call == calls(op, tab.path, <<>>, "", "",
                    IF called THEN "true" ELSE "false", tab.id, FALSE)
  IN /\ IF called
        THEN /\ (tabsThrow => e.raised) /\ (activeThrow => e.raised)
             /\ handlerCall(budget, e.storage, e.raised)
             /\ last' = [ call EXCEPT !.effectRaised = e.raised ]
        ELSE /\ ~tabsThrow /\ ~activeThrow
             /\ handlerReturns(budget)
             /\ last' = call
     /\ openTabs' = r.openTabs
     /\ activeTabId' = r.activeTabId
     /\ UNCHANGED <<workspace, nextId>>
     /\ keyboardEffect(FALSE)

\* The close button of a tab, or 'Close' in its context menu.
HandleTabClose(budget, failures) ==
  \E k \in 1..Len(openTabs), tabsThrow \in failures, activeThrow \in failures :
    tabsCall("handleTabClose", k,
             handleTabClose(workspace.objects, openTabs, activeTabId, k),
             TRUE, budget, tabsThrow, activeThrow)

\* 'Close Others' in the context menu of a tab.
CloseOthers(budget, failures) ==
  \E k \in 1..Len(openTabs), tabsThrow \in failures, activeThrow \in failures :
    tabsCall("closeOthers", k,
             closeOthers(workspace.objects, openTabs, activeTabId, k),
             others(workspace.objects, openTabs,
                    tabFile(workspace.objects, openTabs[k]).id,
                    1, Len(openTabs)) # <<>>,
             budget, tabsThrow, activeThrow)

\* 'Close to the Right' in the context menu of a tab.
CloseToRight(budget, failures) ==
  \E k \in 1..Len(openTabs), tabsThrow \in failures, activeThrow \in failures :
    tabsCall("closeToRight", k,
             closeToRight(workspace.objects, openTabs, activeTabId, k),
             activeFile(workspace.objects, openTabs,
                        tabFile(workspace.objects, openTabs[k]).id)
               < Len(openTabs),
             budget, tabsThrow, activeThrow)

\* A drag of a resize handle ends with a new explorerWidth or terminalHeight,
\* and the effect that saves the layout runs after that render.
SaveLayout(budget, failures) ==
  \E layout \in Layouts \ { getLayout(localStorage) },
     setItemThrows \in failures :
    LET e == setLayout(localStorage, layout, setItemThrows)
    IN /\ handlerCall(budget, e.storage, e.raised)
       /\ last' = [ calls("setLayout", <<>>, <<>>, "", "", "true", Null,
                           FALSE) EXCEPT !.effectRaised = e.raised ]
       /\ UNCHANGED <<workspace, nextId, openTabs, activeTabId, session>>

\* The names typed into the explorer's new-item input.
CreateNames == { <<"main", Dot, "py">>, <<"notes", Dot, "md">>, <<"py">> }

\* The paths of the folders the explorer shows.
FolderPaths ==
  { workspace.objects[a].path :
      a \in { b \in DOMAIN workspace.objects : isFolder(workspace.objects[b]) } }

\* A name entered into the new-item input of the explorer, for a file or for
\* a folder; a file that has been created is handed to handleFileSelect.
HandleCreateItem(budget, failures) ==
  \E type \in { "file", "folder" }, parentPath \in FolderPaths,
     name \in CreateNames, setItemThrows \in failures,
     tabsThrow \in failures, activeThrow \in failures :
    LET r == handleCreateItem(workspace, type, parentPath, name, nextId)
        saved == IF r.saved
                 THEN saveWorkspace(r.workspace, localStorage, setItemThrows)
                 ELSE localStorage
        selects == r.result = "file"
                   /\ readFile(r.workspace, r.workspace.objects[r.node].path)
                        # Null
        t == handleFileSelect(r.workspace, openTabs, activeTabId,
                              r.workspace.objects[r.node].path)
        e == saveTabsEffect(saved, r.workspace.objects, t.openTabs,
                            t.activeTabId, tabsThrow, activeThrow)
        call == calls("handleCreateItem", parentPath, name, "", type,
                      r.result, r.node, setItemThrows)
    IN /\ setItemThrows => r.saved
       /\ IF selects
          THEN /\ (tabsThrow => e.raised) /\ (activeThrow => e.raised)
               /\ handlerCall(budget, e.storage, e.raised)
               /\ openTabs' = t.openTabs
               /\ activeTabId' = t.activeTabId
               /\ last' = [ call EXCEPT !.effectRaised = e.raised ]
          ELSE /\ ~tabsThrow /\ ~activeThrow
               /\ handlerCall(budget, saved, FALSE)
               /\ UNCHANGED <<openTabs, activeTabId>>
               /\ last' = call
       /\ workspace' = r.workspace
       /\ nextId' = IF r.node # Null THEN nextId + 1 ELSE nextId
       /\ keyboardEffect(FALSE)

\* 'Duplicate' in the context menu of a file of the explorer.
Duplicate(budget, failures) ==
  \E file \in { a \in DOMAIN workspace.objects :
                  ~isFolder(workspace.objects[a]) },
     createThrows \in failures, writeThrows \in failures :
    LET r == duplicate(workspace, file, nextId)
        first == IF r.saved
                 THEN saveWorkspace(
                        createFile(workspace,
                                   parentPathOf(workspace.objects[file].path),
                                   copyName(workspace.objects[file].name),
                                   workspace.objects[file].language,
                                   nextId).workspace,
                        localStorage, createThrows)
                 ELSE localStorage
        second == IF r.written
                  THEN saveWorkspace(r.workspace, first, writeThrows)
                  ELSE first
    IN /\ createThrows => r.saved
       /\ writeThrows => r.written
       /\ handlerCall(budget, second, FALSE)
       /\ workspace' = r.workspace
       /\ nextId' = IF r.node # Null THEN nextId + 1 ELSE nextId
       /\ last' = calls("duplicate", workspace.objects[file].path,
                        copyName(workspace.objects[file].name), "",
                        workspace.objects[file].language, r.result, r.node,
                        createThrows \/ writeThrows)
       /\ UNCHANGED <<openTabs, activeTabId, session>>

\* The items the explorer shows: everything below the root folder.
ShownItems == DOMAIN workspace.objects \ { workspace.root }

\* A new name entered into the rename input of an item of the explorer.
ExplorerRename(budget, names, failures) ==
  \E item \in ShownItems, newName \in names, setItemThrows \in failures :
    LET path == workspace.objects[item].path
        r == rename(workspace, path, newName)
    IN /\ mounted
       /\ storeCall(r, setItemThrows, budget)
       /\ last' = calls("rename", path, newName, "", "", r.result, r.node,
                        setItemThrows)

\* 'Delete' in the context menu of an item of the explorer, confirmed or
\* cancelled in the dialog.
ExplorerDelete(budget, failures) ==
  \E item \in ShownItems, confirm \in BOOLEAN, setItemThrows \in failures :
    LET path == workspace.objects[item].path
        r == IF confirm THEN delete(workspace, path)
             ELSE outcome(workspace, "cancel", FALSE, Null)
    IN /\ mounted
       /\ storeCall(r, setItemThrows, budget)
       /\ last' = calls("delete", path, <<>>, "", "", r.result, r.node,
                        setItemThrows)

\* The page is loaded again: a new WorkspaceService over the key-value store,
\* and the component mounted with no tab. On the mount the effect that loads
\* the state runs, then the effects that save the tabs and the layout of
\* the first render, and after the render of the restored state they run
\* again. With throws, setItem fails through the whole load, and the first
\* setOpenTabs ends it.
Reload(budget, failures) ==
  \E throws \in failures :
    LET loaded == IF hasSavedWorkspace(localStorage)
                  THEN loadWorkspace(localStorage)
                  ELSE withFreshIds(loadWorkspace(localStorage), nextId - 1)
        r == loadEffect(loaded, localStorage)
        tabsSaved == saveTabsEffect(localStorage, loaded.objects, r.openTabs,
                                    r.activeTabId, FALSE, FALSE)
        e == IF throws THEN stored(localStorage, TRUE)
             ELSE setLayout(tabsSaved.storage, getLayout(localStorage), FALSE)
    IN /\ opCount < budget
       /\ usable(loaded)
       /\ workspace' = loaded
       /\ localStorage' = e.storage
       /\ openTabs' = IF e.raised THEN <<>> ELSE r.openTabs
       /\ activeTabId' = IF e.raised THEN Null ELSE r.activeTabId
       /\ mounted' = ~e.raised
       /\ nextId' = IF hasSavedWorkspace(localStorage) THEN nextId
                     ELSE nextId + DefaultIds
       /\ opCount' = opCount + 1
       /\ gateway' = [ gateway EXCEPT !.consoleLog = 0 ]
       /\ session' = NoSession
       /\ templateService' = [ templateService EXCEPT
                                 !.templateCache = NoCache ]
       /\ last' = [ calls("reload", <<>>, <<>>, "", "", "true", Null, FALSE)
                      EXCEPT !.effectRaised = e.raised ]

\* The sources sent to the remote service.
RemoteCodes == { "source" }

\* One call of executeCode, from the request to the settled promise.
ExecuteCode(budget) ==
  \E language \in Languages :
    \E code \in IF language = "javascript" THEN JsCodes ELSE RemoteCodes,
       remote \in IF language = "javascript" THEN { NoRemote }
                  ELSE RemoteOutcomes :
      LET request == [ language |-> language, code |-> code ]
          s == executeCode(request, remote, gateway.consoleLog)
      IN /\ opCount < budget
         /\ gateway' = [ consoleLog |-> s.consoleLog,
                         requests |-> gateway.requests + s.requests,
                         call |-> ExecutionCall(request, remote, s,
                                                gateway.consoleLog) ]
         /\ opCount' = opCount + 1
         /\ UNCHANGED <<workspace, localStorage, nextId, openTabs, activeTabId,
                        mounted, last, session, templateService>>

\* What the remote service does with the request of a run.
RunOutcomes ==
  { [ kind |-> "rejects", body |-> NoBody ],
    [ kind |-> "body",
      body |-> Body(FALSE, <<>>,
                    <<[ stdout |-> <<"hello">>, stderr |-> EmptyText,
                        code |-> 0 ]>>) ] }

\* handleRun of a render that holds activeFile (<<>> for null), isRunning
\* and terminalVisible, up to its await: "ignored" when it returns on its
\* first line, and otherwise the request it hands to executeCode.
handleRun(O, active, isRunning) ==
  IF active = <<>> \/ isRunning
  THEN [ started |-> FALSE, path |-> <<>>, language |-> "", code |-> "" ]
  ELSE [ started |-> TRUE,
         path |-> tabFile(O, active[1]).path,
         language |-> tabFile(O, active[1]).language,
         code |-> tabFile(O, active[1]).content ]

\* The render after setTerminalVisible(true) and setIsRunning(true): the
\* handler of the keyboard is registered again when terminalVisible has
\* changed, and then it holds isRunning = true.
running(s) ==
  [ s EXCEPT !.isRunning = TRUE, !.terminalVisible = TRUE,
             !.keyboard.isRunning = IF s.terminalVisible THEN @ ELSE TRUE ]

\* One call of handleRun by the handler `op`, which holds the activeFile and
\* the isRunning of its render. For javascript executeCode settles before
\* any other event is handled, and the finally block has run; for another
\* language the request is sent and the call stays in flight. The text of
\* the terminal and the outputs kept per file are not part of the state.
runCall(op, active, isRunning, budget) ==
  LET r == handleRun(workspace.objects, active, isRunning)
      request == [ language |-> r.language, code |-> r.code ]
      s == executeJavaScript(r.code, gateway.consoleLog)
  IN /\ opCount < budget
     /\ mounted
     /\ opCount' = opCount + 1
     /\ last' = calls(op, r.path, <<>>, r.code, r.language,
                      IF r.started THEN "started" ELSE "ignored", Null, FALSE)
     /\ IF ~r.started
        THEN UNCHANGED <<gateway, session>>
        ELSE IF r.language = "javascript"
        THEN /\ gateway' = [ gateway EXCEPT
                               !.consoleLog = s.consoleLog,
                               !.call = ExecutionCall(request, NoRemote, s,
                                                      gateway.consoleLog) ]
             /\ session' = [ running(session) EXCEPT !.isRunning = FALSE ]
        ELSE /\ gateway' = [ gateway EXCEPT !.requests = @ + 1 ]
             /\ session' = [ running(session) EXCEPT
                               !.inFlight = Append(@, r) ]
     /\ UNCHANGED <<workspace, localStorage, nextId, openTabs, activeTabId,
                    mounted, templateService>>

\* The Run button of the tab bar: handleRun of the last render.
RunButton(budget) ==
  runCall("Run", activeTab, session.isRunning, budget)

\* The run button of the status bar: handleRun of the last render.
StatusBarRun(budget) ==
  runCall("StatusBar.onRun", activeTab, session.isRunning, budget)

\* Ctrl+Enter outside the editor: handleRun of the render whose
\* handleKeyDown is registered, which holds the activeFile of the last
\* render and the isRunning of its own.
CtrlEnter(budget) ==
  runCall("Ctrl+Enter", activeTab, session.keyboard.isRunning, budget)

\* The event editor-run, raised by Ctrl+Enter inside the editor: handleRun
\* of the first render, where openTabs is [] and activeFile is null.
EditorRun(budget) ==
  runCall("editor-run", <<>>, FALSE, budget)

\* The event editor-save, raised by Ctrl+S inside the editor: handleSave of
\* the first render, where openTabs is [] and activeFile is null.
EditorSave(budget) ==
  LET r == handleSave(workspace, <<>>, Null)
  IN /\ opCount < budget
     /\ mounted
     /\ opCount' = opCount + 1
     /\ last' = calls("editor-save", <<>>, <<>>, "", "",
                      IF r.found THEN "true" ELSE "false", Null, FALSE)
     /\ workspace' = r.workspace
     /\ UNCHANGED <<localStorage, nextId, openTabs, activeTabId, mounted,
                    gateway, session, templateService>>

\* Ctrl+` or the terminal button of the status bar.
ToggleTerminal(budget) ==
  /\ opCount < budget
  /\ mounted
  /\ opCount' = opCount + 1
  /\ session' = registered([ session EXCEPT !.terminalVisible = ~@ ])
  /\ last' = calls("setTerminalVisible", <<>>, <<>>, "", "", "true", Null,
                   FALSE)
  /\ UNCHANGED <<workspace, localStorage, nextId, openTabs, activeTabId,
                 mounted, gateway, templateService>>

\* The remote service answers a call in flight, or the request fails:
\* executeCode settles, and the finally block of handleRun sets isRunning to
\* false.
Settle ==
  \E i \in 1..Len(session.inFlight), remote \in RunOutcomes :
    LET r == session.inFlight[i]
        request == [ language |-> r.language, code |-> r.code ]
        s == executeCode(request, remote, gateway.consoleLog)
    IN /\ gateway' = [ gateway EXCEPT
                         !.call = ExecutionCall(request, remote, s,
                                                gateway.consoleLog) ]
       /\ session' = [ session EXCEPT
                         !.isRunning = FALSE,
                         !.inFlight = SubSeq(@, 1, i - 1)
                                        \o SubSeq(@, i + 1, Len(@)) ]
       /\ last' = calls("executeCode", r.path, <<>>, r.code, r.language,
                        IF s.result.success THEN "true" ELSE "false", Null,
                        FALSE)
       /\ UNCHANGED <<workspace, localStorage, nextId, openTabs, activeTabId,
                      mounted, opCount, templateService>>

\* One call of the template service with outcome a.
templateCall(method, language, problemTitle, a, budget) ==
  /\ opCount < budget
  /\ opCount' = opCount + 1
  /\ templateService' = [ templateCache |-> a.templateCache,
                          call |-> TemplateCall(method, language,
                                                problemTitle, a) ]
  /\ UNCHANGED <<workspace, localStorage, nextId, openTabs, activeTabId,
                 mounted, last, gateway, session>>

GetVisibleCode(budget) ==
  \E problemId \in ProblemIds, language \in TemplateLanguages,
     problemTitle \in Titles, api \in ApiOutcomes, progress \in Progresses :
    templateCall("getVisibleCode", language, problemTitle,
                 getVisibleCode(templateService.templateCache, problemId,
                                language, problemTitle, api, progress),
                 budget)

GetOriginalVisibleCode(budget) ==
  \E problemId \in ProblemIds, language \in TemplateLanguages,
     problemTitle \in Titles, api \in ApiOutcomes :
    templateCall("getOriginalVisibleCode", language, problemTitle,
                 getOriginalVisibleCode(templateService.templateCache,
                                        problemId, language, problemTitle,
                                        api),
                 budget)

\* clearCache(problemId)
ClearCache(budget) ==
  \E problemId \in ProblemIds :
    /\ opCount < budget
    /\ opCount' = opCount + 1
    /\ templateService' = [ templateService EXCEPT
                              !.templateCache[problemId] = <<>> ]
    /\ UNCHANGED <<workspace, localStorage, nextId, openTabs, activeTabId,
                   mounted, last, gateway, session>>

\* The Workspace Store alone, for runs of at most `budget` operations.
Store(budget) ==
  \/ CreateFile(budget)
  \/ CreateFolder(budget)
  \/ WriteFile(budget)
  \/ MarkFileUnsaved(budget)
  \/ Rename(budget)
  \/ Delete(budget)

Next == Store(MaxOps)

Spec == Init /\ [][Next]_vars

\* The Workspace Store, one operation further.
NextDeep == Store(MaxOps + 1)

SpecDeep == Init /\ [][NextDeep]_vars

\* The Workspace Store with the editor on top of it.
NextIDE ==
  \/ Store(MaxOps)
  \/ HandleFileSelect(MaxOps, BOOLEAN)
  \/ HandleCodeChange(MaxOps, BOOLEAN)

SpecIDE == Init /\ [][NextIDE]_vars

\* The component with every write it makes to the key-value store.
NextPersist ==
  \/ Store(MaxOps)
  \/ HandleFileSelect(MaxOps, BOOLEAN)
  \/ HandleCodeChange(MaxOps, BOOLEAN)
  \/ SaveLayout(MaxOps, BOOLEAN)

SpecPersist == Init /\ [][NextPersist]_vars

\* The editor with the explorer's rename and delete, one operation further
\* and with a key-value store that takes every write.
NextEditor ==
  \/ HandleFileSelect(MaxOps + 1, { FALSE })
  \/ HandleCodeChange(MaxOps + 1, { FALSE })
  \/ HandleSave(MaxOps + 1, { FALSE })
  \/ HandleReset(MaxOps + 1, { FALSE })
  \/ Rename(MaxOps + 1)
  \/ Delete(MaxOps + 1)

SpecEditor == Init /\ [][NextEditor]_vars

\* The tab bar with the explorer's rename and delete, in runs of four
\* operations.
NextOpen ==
  \/ HandleFileSelect(MaxOps + 2, { FALSE })
  \/ ExplorerRename(MaxOps + 2, NewNames, { FALSE })
  \/ ExplorerDelete(MaxOps + 2, { FALSE })

SpecOpen == Init /\ [][NextOpen]_vars

\* The tab bar: tabs opened, edited and closed, and files renamed in the
\* explorer, in runs of five operations.
NextClose ==
  \/ HandleFileSelect(MaxOps + 3, { FALSE })
  \/ HandleCodeChange(MaxOps + 3, { FALSE })
  \/ ExplorerRename(MaxOps + 3, { <<"lib">> }, { FALSE })
  \/ HandleTabClose(MaxOps + 3, { FALSE })

SpecClose == Init /\ [][NextClose]_vars

\* Tabs opened and closed, files renamed and deleted in the explorer, and the
\* page loaded again.
NextRestore ==
  \/ HandleFileSelect(MaxOps + 1, { FALSE })
  \/ HandleTabClose(MaxOps + 1, { FALSE })
  \/ ExplorerRename(MaxOps + 1, NewNames, BOOLEAN)
  \/ ExplorerDelete(MaxOps + 1, BOOLEAN)
  \/ Reload(MaxOps + 1, BOOLEAN)

SpecRestore == Init /\ [][NextRestore]_vars

\* The tab bar alone: tabs opened, closed one by one or through the context
\* menu, and the page loaded again, in runs of five operations.
NextTabs ==
  \/ HandleFileSelect(MaxOps + 3, { FALSE })
  \/ HandleTabClose(MaxOps + 3, { FALSE })
  \/ CloseOthers(MaxOps + 3, { FALSE })
  \/ CloseToRight(MaxOps + 3, { FALSE })
  \/ Reload(MaxOps + 3, { FALSE })

SpecTabs == Init /\ [][NextTabs]_vars

\* Files are opened and edited, and run from the tab bar, the status bar,
\* the keyboard and the editor, while the remote service answers.
NextRun ==
  \/ HandleFileSelect(MaxOps + 2, { FALSE })
  \/ HandleCodeChange(MaxOps + 2, { FALSE })
  \/ RunButton(MaxOps + 2)
  \/ StatusBarRun(MaxOps + 2)
  \/ CtrlEnter(MaxOps + 2)
  \/ EditorRun(MaxOps + 2)
  \/ EditorSave(MaxOps + 2)
  \/ ToggleTerminal(MaxOps + 2)
  \/ Settle

SpecRun == Init /\ [][NextRun]_vars

\* The remote service answers every request in the end, or the request
\* fails: a call in flight settles.
SpecRunFair == SpecRun /\ WF_vars(Settle)

\* The template service alone.
NextTemplates ==
  \/ GetVisibleCode(MaxOps)
  \/ GetOriginalVisibleCode(MaxOps)
  \/ ClearCache(MaxOps)

SpecTemplates == Init /\ [][NextTemplates]_vars

\* The Execution Gateway alone.
NextGateway == ExecuteCode(MaxOps)

SpecGateway == Init /\ [][NextGateway]_vars

\* What the workspace key can hold when the page loads: nothing, a text
\* that is not JSON, JSON that is no workspace, or a workspace saved before.
PersistedWorkspaces ==
  { NoItem, <<NotJson>>, <<JsonNull>>, <<JsonNoRoot>>,
    <<stringify(createDefaultWorkspace)>> }

\* The state after new WorkspaceService() over any of these.
InitLoad ==
  /\ \E item \in PersistedWorkspaces :
        localStorage = [ vscode_workspace |-> item, vscode_open_tabs |-> NoItem,
                         vscode_active_tab |-> NoItem, vscode_layout |-> NoItem ]
  /\ workspace = loadWorkspace(localStorage)
  /\ nextId = DefaultIds + 1
  /\ openTabs = <<>>
  /\ activeTabId = Null
  /\ mounted = TRUE
  /\ last = calls("new", <<>>, <<>>, "", "", "", Null, FALSE)
  /\ opCount = 0
  /\ gateway = [ consoleLog |-> 0, requests |-> 0, call |-> NoCall ]
  /\ session = NoSession
  /\ templateService = [ templateCache |-> NoCache, call |-> NoTemplateCall ]

SpecLoad == InitLoad /\ [][Next]_vars

\* The Workspace Store with the explorer's ways to create a file.
NextExplorer ==
  \/ Store(MaxOps)
  \/ HandleCreateItem(MaxOps, BOOLEAN)
  \/ Duplicate(MaxOps, BOOLEAN)

SpecExplorer == Init /\ [][NextExplorer]_vars

\* ================================================================= claims
\* What the claims speak of, read off the tree itself.

\* The folders of the tree.
Folders(ws) == { a \in DOMAIN ws.objects : isFolder(ws.objects[a]) }

\* The children of folder a, as a set.
ChildSet(ws, a) ==
  { ws.objects[a].children[i] : i \in 1..Len(ws.objects[a].children) }

RECURSIVE PathUnder(_, _, _)

\* The path node a has to have when the folder `top` above it has the path
\* it has: top's path joined with the names on the way down to a.
PathUnder(ws, top, a) ==
  IF a = top THEN ws.objects[top].path
  ELSE LET parent == CHOOSE f \in Folders(ws) : a \in ChildSet(ws, f)
       IN childPath(PathUnder(ws, top, parent), ws.objects[a].name)

\* C1: every node reachable from the root has the path of its parent joined
\* with its own name, the root path '/' adding no slash of its own.
C1_PathInvariant ==
  \A f \in Folders(workspace) : \A c \in ChildSet(workspace, f) :
     workspace.objects[c].path =
       childPath(workspace.objects[f].path, workspace.objects[c].name)

\* C3: after rename(path, newName) has succeeded on a folder, every file
\* below the folder is what readFile returns at its path under the folder's
\* new path, and readFile finds nothing at the path the file had before.
C3_RenameCascade ==
  [][ (last'.op = "rename" /\ last'.result = "true")
      => LET item == findItemByPath(workspace.objects, last'.path,
                                    workspace.root)
         IN isFolder(workspace.objects[item])
            => \A f \in subtree(workspace'.objects, item) \ {item} :
                 ~isFolder(workspace'.objects[f])
                 => /\ readFile(workspace', PathUnder(workspace', item, f)) = f
                    /\ readFile(workspace', workspace.objects[f].path) = Null
    ]_vars

\* C4: there is one root folder, its path is '/', and it still is the
\* folder the default workspace was built with, under the same name.
C4_RootStable ==
  /\ workspace.root = createDefaultWorkspace.root
  /\ workspace.objects[workspace.root].path = <<Slash>>
  /\ workspace.objects[workspace.root].name =
       createDefaultWorkspace.objects[createDefaultWorkspace.root].name
  /\ \A f \in Folders(workspace) : workspace.root \notin ChildSet(workspace, f)

\* C2: no folder has two children of the same name.
C2_SiblingUniqueness ==
  \A f \in Folders(workspace) :
     \A i, j \in 1..Len(workspace.objects[f].children) :
        i # j => workspace.objects[workspace.objects[f].children[i]].name
                 # workspace.objects[workspace.objects[f].children[j]].name

\* The operations the claims call mutations of the workspace, and the
\* results of a call that has succeeded.
Mutations ==
  { "createFile", "createFolder", "writeFile", "markFileUnsaved", "rename",
    "delete", "handleCodeChange" }
Succeeded == last.result \in { "file", "folder", "true" }

\* C5, as claimed: after every successful mutation the store constructed
\* from the value persisted under the workspace key holds the in-memory tree.
C5_WriteThroughRoundTrip ==
  (last.op \in Mutations /\ Succeeded)
  => loadWorkspace(localStorage) = workspace

\* C5, amended: after every successful mutation whose setItem did not throw,
\* the store constructed from the persisted value holds the in-memory tree:
\* the same ids, names, paths, contents, isSaved flags and child order.
C5_WriteThroughWhenStored ==
  (last.op \in Mutations /\ Succeeded /\ ~last.threw)
  => loadWorkspace(localStorage) = workspace

\* An editor content change has reached the tree and the store.
C5_Witness ==
  /\ last.op = "handleCodeChange" /\ last.result = "true" /\ ~last.threw
  /\ \E a \in DOMAIN workspace.objects :
        /\ ~isFolder(workspace.objects[a])
        /\ workspace.objects[a].content = last.content
        /\ ~workspace.objects[a].isSaved
  /\ loadWorkspace(localStorage) = workspace

\* C6: writeFile on a path that is no file, rename and delete on a path that
\* is no node, return false and leave the tree and the persisted tree alone.
C6_NotFound ==
  [][ LET unchanged == /\ last'.result = "false"
                       /\ workspace' = workspace
                       /\ localStorage' = localStorage
      IN /\ (last'.op = "writeFile"
             /\ readFile(workspace, last'.path) = Null) => unchanged
         /\ (last'.op \in { "rename", "delete" }
             /\ findItemByPath(workspace.objects, last'.path,
                               workspace.root) = Null) => unchanged
    ]_vars

\* A rename of a path no node has has returned false.
C6_Witness ==
  /\ last.op = "rename" /\ last.result = "false"
  /\ findItemByPath(workspace.objects, last.path, workspace.root) = Null

\* C7: createFile and createFolder under a parentPath that is no folder
\* return null, which no collision (a throw) and no success returns, create
\* no node and leave the tree and the persisted tree alone.
C7_MissingParent ==
  [][ last'.op \in { "createFile", "createFolder" }
      => LET parent == findItemByPath(workspace.objects, last'.path,
                                      workspace.root)
             missing == parent = Null \/ ~isFolder(workspace.objects[parent])
         IN /\ missing => /\ last'.result = "null"
                          /\ last'.node = Null
                          /\ nextId' = nextId
                          /\ workspace' = workspace
                          /\ localStorage' = localStorage
            /\ last'.result = "null" => missing
    ]_vars

\* createFolder under the path of a file has returned null.
C7_Witness ==
  /\ last.op = "createFolder" /\ last.result = "null"
  /\ readFile(workspace, last.path) # Null

\* C8: a successful writeFile(path, content) sets the content of the file at
\* path and its isSaved flag to true, changes nothing else in the tree, and
\* the same call made once more changes nothing at all.
C8_WriteFileEffect ==
  [][ (last'.op = "writeFile" /\ last'.result = "true")
      => LET file == readFile(workspace, last'.path)
             again == writeFile(workspace', last'.path, last'.content)
         IN /\ file # Null
            /\ workspace'.root = workspace.root
            /\ workspace'.objects =
                 [ workspace.objects EXCEPT ![file].content = last'.content,
                                            ![file].isSaved = TRUE ]
            /\ again.result = "true"
            /\ again.workspace = workspace'
    ]_vars

\* writeFile has saved, under a content it did not have, a file that was
\* unsaved: a file createFile has made in this run (none of the default
\* workspace is a java file).
C8_Witness ==
  /\ last.op = "writeFile" /\ last.result = "true"
  /\ LET file == readFile(workspace, last.path)
     IN /\ workspace.objects[file].language = "java"
        /\ workspace.objects[file].content = last.content
        /\ workspace.objects[file].isSaved

\* The fixed table from extension to language, cpp for any other extension.
ExtensionTable(ext) ==
  CASE ext = <<"c">> -> "c"
    [] ext \in { <<"cpp">>, <<"cc">>, <<"cxx">> } -> "cpp"
    [] ext = <<"java">> -> "java"
    [] ext \in { <<"js">>, <<"mjs">> } -> "javascript"
    [] ext = <<"py">> -> "python"
    [] OTHER -> "cpp"

\* The language of a name by its extension: a name without a '.' has no
\* extension, and gets cpp.
LanguageOfName(name) ==
  IF lastIndexOf(name, Dot) = 0 THEN "cpp"
  ELSE ExtensionTable(toLowerCase(
         SubSeq(name, lastIndexOf(name, Dot) + 1, Len(name))))

\* C9: a successful createFile appends one new file as the last child of the
\* parent, under the given name, with the language given or else the one of
\* the name's extension (cpp when the extension is unknown or absent), that
\* language's template as content and isSaved false, and changes no other
\* node.
C9_CreateFilePostcondition ==
  [][ (last'.op = "createFile" /\ last'.result = "file")
      => LET O == workspace.objects
             parent == findItemByPath(O, last'.path, workspace.root)
             new == workspace'.objects[last'.node]
             language == IF last'.language # NoLanguage THEN last'.language
                         ELSE LanguageOfName(last'.name)
         IN /\ last'.node \notin DOMAIN O
            /\ DOMAIN workspace'.objects = DOMAIN O \cup { last'.node }
            /\ workspace'.objects[parent].children =
                 Append(O[parent].children, last'.node)
            /\ \A a \in DOMAIN O \ { parent } : workspace'.objects[a] = O[a]
            /\ new.name = last'.name
            /\ new.language = language
            /\ new.content = DEFAULT_CODE[language]
            /\ new.isSaved = FALSE
    ]_vars

\* C10: after delete(path) has returned true for a folder, the tree has lost
\* that folder and everything below it and nothing else: no lost node is in
\* getAllFiles() or found by findById, and every other node keeps its fields
\* and its place among the nodes that stay.
C10_DeleteRemovesSubtree ==
  [][ (last'.op = "delete" /\ last'.result = "true")
      => LET O == workspace.objects
             gone == DOMAIN O \ DOMAIN workspace'.objects
             stays(a) == a \notin gone
             files == getAllFiles(workspace'.objects, workspace'.root)
         IN \A top \in gone :
              (O[top].path = last'.path /\ isFolder(O[top])
               /\ \E f \in Folders(workspace) \ gone : top \in ChildSet(workspace, f))
              => /\ gone = subtree(O, top)
                 /\ \A a \in gone :
                      /\ \A i \in 1..Len(files) : files[i] # a
                      /\ findById(workspace'.objects, O[a].id,
                                  workspace'.root) = Null
                 /\ \A a \in DOMAIN workspace'.objects :
                      workspace'.objects[a] =
                        IF isFolder(O[a])
                        THEN [ O[a] EXCEPT !.children = SelectSeq(@, stays) ]
                        ELSE O[a]
                 /\ workspace'.root = workspace.root
                 /\ files = SelectSeq(getAllFiles(O, workspace.root), stays)
    ]_vars

\* delete('/src') has returned true, and of the default workspace what is
\* left is what was not in that folder.
C10_Witness ==
  /\ last.op = "delete" /\ last.result = "true"
  /\ last.path = <<Slash, "src">>
  /\ LET D == createDefaultWorkspace
     IN DOMAIN workspace.objects =
          DOMAIN D.objects
            \ subtree(D.objects, findItemByPath(D.objects, last.path, D.root))

\* The files of the tree.
Files(ws) == DOMAIN ws.objects \ Folders(ws)

\* C11: every file has the language of its name's extension, unless
\* createFile was given another language for it: the language of a file is
\* the one its name has by the table (cpp without an extension), or else one
\* of the languages handed to createFile, which no name of the model has.
C11_LanguageConsistency ==
  \A f \in Files(workspace) :
     \/ workspace.objects[f].language = LanguageOfName(workspace.objects[f].name)
     \/ workspace.objects[f].language \in SuppliedLanguages

\* The extensions of the table, and a name that has one of them.
RecognizedExtensions ==
  { <<"c">>, <<"cpp">>, <<"cc">>, <<"cxx">>, <<"java">>, <<"js">>, <<"mjs">>,
    <<"py">> }
Recognized(name) ==
  /\ lastIndexOf(name, Dot) # 0
  /\ toLowerCase(SubSeq(name, lastIndexOf(name, Dot) + 1, Len(name)))
       \in RecognizedExtensions

\* C12: no file is ever created under a name whose extension is not one of
\* the table: whatever a step adds to the files of the tree has a recognized
\* extension.
C12_UnrecognizedRejected ==
  [][ \A f \in Files(workspace') \ Files(workspace) :
        Recognized(workspace'.objects[f].name)
    ]_vars

\* The files of the tree that are not saved.
Unsaved(ws) == { f \in Files(ws) : ~ws.objects[f].isSaved }

\* C13: hasUnsavedChanges() is true exactly when some file of the tree, at
\* any depth, has isSaved false, before and after every step; it is true
\* after a successful createFile, and false after a successful writeFile on
\* the only unsaved file.
C13_UnsavedAggregate ==
  [][ /\ hasUnsavedChanges(workspace) <=> Unsaved(workspace) # {}
      /\ hasUnsavedChanges(workspace') <=> Unsaved(workspace') # {}
      /\ (last'.op = "createFile" /\ last'.result = "file")
         => hasUnsavedChanges(workspace')
      /\ (last'.op = "writeFile" /\ last'.result = "true"
          /\ Unsaved(workspace) = { readFile(workspace, last'.path) })
         => ~hasUnsavedChanges(workspace')
    ]_vars

\* An unsaved file two levels below the root makes hasUnsavedChanges() true.
C13_Witness ==
  /\ last.op = "markFileUnsaved" /\ last.result = "true"
  /\ Unsaved(workspace) = { readFile(workspace, last.path) }
  /\ \E f \in Folders(workspace) \ { workspace.root } :
        Unsaved(workspace) \subseteq ChildSet(workspace, f)
  /\ hasUnsavedChanges(workspace)

\* C14: whatever the workspace key holds, the constructed store has a
\* workspace whose root is a folder with path '/', and no later call of a
\* method ends in a fault.
C14_CorruptFallsBack ==
  /\ opCount = 0
     => /\ usable(workspace)
        /\ isFolder(workspace.objects[workspace.root])
        /\ workspace.objects[workspace.root].path = <<Slash>>
  /\ last.result # "TypeError"

\* C15: a write to the key-value store that throws leaves the operation that
\* made it (a workspace mutation, setOpenTabs, setActiveTabId, setLayout)
\* without an exception: nothing is raised to the caller and the component
\* goes on.
C15_WriteFailuresNonFatal ==
  /\ ~last.effectRaised
  /\ mounted

\* The file of the tree that has the id of a tab, Null when it is gone.
fileOfTab(tab) ==
  findById(workspace.objects, tabFile(workspace.objects, tab).id,
           workspace.root)

\* C16: every open tab whose file is still in the workspace (same id) shows
\* the path, the content and the isSaved flag of that file, after open, edit,
\* save, reset, rename and delete; so an edit or a save made through a tab
\* after a rename is found in the file.
C16_TabFileAgreement ==
  \A i \in 1..Len(openTabs) :
     LET tab == tabFile(workspace.objects, openTabs[i])
         file == fileOfTab(openTabs[i])
     IN file # Null
        => /\ tab.path = workspace.objects[file].path
           /\ tab.content = workspace.objects[file].content
           /\ tab.isSaved = workspace.objects[file].isSaved

\* Two open tabs have one path.
SharedPath(O, tabs) ==
  \E i, j \in 1..Len(tabs) :
     i # j /\ tabFile(O, tabs[i]).path = tabFile(O, tabs[j]).path

\* The paths of the tabs, in the order of the tab bar.
TabPaths(O, tabs) == [ i \in 1..Len(tabs) |-> tabFile(O, tabs[i]).path ]

\* C17: opening a file that has a tab for its path leaves the number and the
\* order of the tabs as they are, makes that tab the active one and shows the
\* store's content in it; opening a file that has none appends exactly one tab
\* and makes it the active one; and at no time do two open tabs have one path.
C17_OpenFile ==
  [][ /\ (last'.op = "handleFileSelect" /\ last'.result = "true")
         => LET O == workspace.objects
                file == O[readFile(workspace, last'.path)]
                n == Len(openTabs)
            IN /\ activeTabId' = file.id
               /\ IF \E i \in 1..n : tabFile(O, openTabs[i]).path = file.path
                  THEN /\ TabPaths(workspace'.objects, openTabs')
                            = TabPaths(O, openTabs)
                       /\ \A i \in 1..n :
                            tabFile(O, openTabs[i]).path = file.path
                            => tabFile(workspace'.objects, openTabs'[i]) = file
                  ELSE /\ Len(openTabs') = n + 1
                       /\ SubSeq(openTabs', 1, n) = openTabs
                       /\ tabFile(workspace'.objects, openTabs'[n + 1]) = file
      /\ ~SharedPath(workspace'.objects, openTabs')
    ]_vars

\* C18: closing a tab removes that tab and keeps the order of the others; when
\* it was the active tab, the tab that now stands at its index becomes
\* active, else the one before it, else none; when it was not, the active tab
\* stays.
C18_CloseTab ==
  [][ last'.op = "handleTabClose"
      => LET O == workspace.objects
         IN \E k \in 1..Len(openTabs) :
              /\ tabFile(O, openTabs[k]).id = last'.node
              /\ tabFile(O, openTabs[k]).path = last'.path
              /\ openTabs' = splice(openTabs, k)
              /\ activeTabId' =
                   IF activeTabId # last'.node THEN activeTabId
                   ELSE IF k <= Len(openTabs')
                   THEN tabFile(O, openTabs'[k]).id
                   ELSE IF k > 1 THEN tabFile(O, openTabs'[k - 1]).id
                   ELSE Null
    ]_vars

\* The ids of the tabs, in the order of the tab bar.
TabIds(O, tabs) == [ i \in 1..Len(tabs) |-> tabFile(O, tabs[i]).id ]

\* The persisted tabs whose file, looked up by its id, is in the workspace ws.
StillPresent(ws, savedTabs) ==
  SelectSeq(savedTabs,
            LAMBDA tab : findById(ws.objects, tab.fileId, ws.root) # Null)

\* C19: after a load the open tabs are the persisted tabs whose file is
\* still in the workspace by its id, in the persisted order, a file renamed
\* after its tab was persisted included; the active tab is the persisted
\* active id if it is one of them, else the first of them, else none.
C19_TabRestore ==
  [][ (last'.op = "reload" /\ ~last'.effectRaised)
      => LET expected == StillPresent(workspace', getOpenTabs(localStorage))
             ids == [ i \in 1..Len(expected) |-> expected[i].fileId ]
         IN /\ TabIds(workspace'.objects, openTabs') = ids
            /\ activeTabId' =
                 IF \E i \in 1..Len(ids) : ids[i] = getActiveTabId(localStorage)
                 THEN getActiveTabId(localStorage)
                 ELSE IF Len(ids) > 0 THEN ids[1]
                 ELSE Null
    ]_vars

\* C20: after open, close, Close Others, Close to the Right and load, the
\* active tab id is none or the id of exactly one open tab.
C20_ActiveTabValid ==
  \/ activeTabId = Null
  \/ Cardinality({ i \in 1..Len(openTabs) :
                     tabFile(workspace.objects, openTabs[i]).id = activeTabId })
       = 1

\* The evaluation or the remote call of the last executeCode has failed.
Faulted(call) ==
  \/ call.language = "javascript" /\ thrown(call.code).kind # "none"
  \/ call.remote.kind \in { "rejects", "status", "syntax" }

\* C21: whatever the evaluated code or the remote service does, executeCode
\* resolves to a result object and never rejects, and a fault gives
\* success = false.
C21_GatewayNeverFaults ==
  /\ ~gateway.call.rejected
  /\ Faulted(gateway.call) => ~gateway.call.result.success

\* C22: after every in-process execution, whether the code completed or
\* threw, console.log is the function it was before; so it is the function
\* of the host after any sequence of executions.
C22_LoggingSinkRestored ==
  /\ gateway.call.language = "javascript"
     => gateway.consoleLog = gateway.call.consoleLogBefore
  /\ gateway.consoleLog = 0

\* The last call of executeCode was answered with a parsed body.
Answered(call) == call.remote.kind = "body" /\ ~call.remote.body.isNull

\* The last call was answered with a compile stderr that is not empty.
CompileFailed(call) ==
  /\ Answered(call)
  /\ call.remote.body.compile # <<>>
  /\ call.remote.body.compile[1].stderr # EmptyText

Compiled(call) == Answered(call) /\ ~CompileFailed(call)

\* C24 as stated: without a compile stderr, success is true exactly when
\* the run stderr is empty and the exit code is 0.
C24_RunDecides ==
  Compiled(gateway.call)
  => (gateway.call.result.success
        <=> /\ gateway.call.remote.body.run # <<>>
            /\ gateway.call.remote.body.run[1].stderr = EmptyText
            /\ gateway.call.remote.body.run[1].code = 0)

\* C24: without a compile stderr, a response that has a run phase gives
\* success = true exactly when the run stderr is empty and the exit code is
\* 0, and a response that has no run phase gives success = true with the
\* output "No output".
C24_RunDecidesWhenRun ==
  Compiled(gateway.call)
  => IF gateway.call.remote.body.run # <<>>
     THEN gateway.call.result.success
            <=> /\ gateway.call.remote.body.run[1].stderr = EmptyText
                /\ gateway.call.remote.body.run[1].code = 0
     ELSE /\ gateway.call.result.success
          /\ gateway.call.result.output = <<"No output">>

\* A run that printed, wrote nothing to stderr and exited with code 1.
C24_Witness ==
  /\ Compiled(gateway.call)
  /\ gateway.call.remote.body.run
       = <<[ stdout |-> <<"hello">>, stderr |-> EmptyText, code |-> 1 ]>>
  /\ gateway.call.result
       = ExecutionResult(<<"hello", "Process exited with code 1">>, FALSE,
                         <<"Execution failed">>)

\* C25: a call for javascript sends no request and a call for any other
\* language sends exactly one; when the request fails in transport or comes
\* back with a status that is not OK it is not sent again, and the result is
\* success = false with the output "Error: " and the message of the failure.
C25_OneRequest ==
  /\ gateway.call.language = "javascript" => gateway.call.requests = 0
  /\ gateway.call.language \in Languages \ { "javascript" }
     => gateway.call.requests = 1
  /\ gateway.requests <= opCount
  /\ gateway.call.remote.kind \in { "rejects", "status" }
     => /\ ~gateway.call.result.success
        /\ gateway.call.result.error # <<>>
        /\ gateway.call.result.output
             = <<"Error: " \o gateway.call.result.error[1]>>

\* A request answered with status 500, after an earlier request.
C25_Witness ==
  /\ gateway.call.remote.kind = "status"
  /\ gateway.call.requests = 1
  /\ gateway.requests = 2
  /\ gateway.call.result.output
       = <<"Error: Execution failed with status: 500">>

\* C26: whatever the order of the run triggers (Run button, run button of
\* the status bar, Ctrl+Enter, the event editor-run) and of the completions,
\* at most one call of executeCode is in flight.
C26_SingleFlight == Len(session.inFlight) <= 1

\* The step is a run trigger of the keyboard, the tab bar or the status bar.
Triggered(call) == call.op \in { "Run", "StatusBar.onRun", "Ctrl+Enter" }

\* C28: provided the gateway settles, a run that has started reaches
\* isRunning = false whatever its outcome, and from then on a run trigger
\* on an active file, with no run going on, starts an execution.
C28_RunTerminates ==
  /\ session.isRunning ~> ~session.isRunning
  /\ [][ ( /\ opCount' = opCount + 1
           /\ Triggered(last')
           /\ gateway.call # NoCall
           /\ activeTab # <<>>
           /\ ~session.isRunning )
         => last'.result = "started" ]_vars

\* C29: 'Close Others' on a tab leaves exactly that tab open, and 'Close to
\* the Right' on a tab leaves the tabs up to and including it, in their
\* order.
C29_CloseMany ==
  [][ opCount' = opCount + 1
      => LET ids == TabIds(workspace.objects, openTabs)
             left == TabIds(workspace'.objects, openTabs')
         IN /\ last'.op = "closeOthers" => left = <<last'.node>>
            /\ last'.op = "closeToRight"
               => \E k \in 1..Len(ids) :
                    ids[k] = last'.node /\ left = SubSeq(ids, 1, k)
    ]_vars

\* C30: the events editor-save and editor-run act on the file that is active
\* when the event is raised, with the content it has then: editor-save
\* writes that content to the store and marks the file saved, and editor-run,
\* with no run going on, starts an execution of that content.
C30_EditorEventsCurrent ==
  [][ (opCount' = opCount + 1 /\ activeTab # <<>>)
      => LET file == tabFile(workspace.objects, activeTab[1])
         IN /\ last'.op = "editor-save"
               => /\ readFile(workspace', file.path) # Null
                  /\ workspace'.objects[readFile(workspace', file.path)].content
                       = file.content
                  /\ workspace'.objects[readFile(workspace', file.path)].isSaved
            /\ (last'.op = "editor-run" /\ ~session.isRunning)
               => /\ last'.result = "started"
                  /\ last'.path = file.path
                  /\ last'.content = file.content
    ]_vars

\* C27: getVisibleCode and getOriginalVisibleCode never reject; they return
\* the template of the remote service when there is one and it is not
\* empty, else the template generated from the keywords of the title
\* ('two sum' gives the two-sum template), else the generic boilerplate.
C27_TemplateFallback ==
  templateService.call.method # ""
  => /\ ~templateService.call.rejected
     /\ templateService.call.result
          = IF templateService.call.remote # <<>>
               /\ templateService.call.remote[1] # ""
            THEN templateService.call.remote[1]
            ELSE generateMeaningfulTemplate(templateService.call.language,
                                            templateService.call.problemTitle)

====
